---- MODULE Spec2Model ----
(***************************************************************************)
(* Model of the CX analytics engine: the record normalizer                 *)
(* (data_processor.py) and the aggregate views, classifiers and insight    *)
(* summarizer of CXAnalytics (analytics.py).                               *)
(*                                                                         *)
(* A table (DataFrame) is a sequence of rows, a row is a record.  A cell   *)
(* that may be missing (NaN / NaT / None) is NaN == <<>> when missing and  *)
(* <<v>> when it holds v.  A timestamp is a whole number of hours; text is *)
(* a sequence of characters.  A number rounded to two decimals is kept as  *)
(* an integer count of hundredths.  A column a table does not have is a    *)
(* field its rows do not have.                                             *)
(***************************************************************************)
EXTENDS Integers, Sequences, FiniteSets, TLC

VARIABLES raw_messages, raw_sessions, messages, sessions, called, ret, files, script

vars == <<raw_messages, raw_sessions, messages, sessions, called, ret, files, script>>

(***************************************************************************)
(* Missing values and small helpers                                        *)
(***************************************************************************)
NaN == <<>>

Some(v) == <<v>>

isna(x) == x = NaN

notna(x) == x # NaN

Val(x) == x[1]

Range(s) == {s[i] : i \in DOMAIN s}

RECURSIVE SumSeq(_)
SumSeq(s) == IF s = <<>> THEN 0 ELSE Head(s) + SumSeq(Tail(s))

RECURSIVE SortedSeq(_)
\* the integers of a finite set in ascending order
SortedSeq(S) ==
    IF S = {} THEN <<>>
    ELSE LET m == CHOOSE x \in S : \A y \in S : x <= y
         IN  <<m>> \o SortedSeq(S \ {m})

RECURSIVE SortInts(_)
\* a sequence of integers in ascending order (duplicates kept)
SortInts(s) ==
    IF s = <<>> THEN <<>>
    ELSE LET i == CHOOSE k \in DOMAIN s : \A j \in DOMAIN s : s[k] <= s[j]
         IN  <<s[i]>> \o SortInts(SubSeq(s, 1, i - 1) \o SubSeq(s, i + 1, Len(s)))

\* the non-missing values of column c of table df, in row order
Values(df, c) ==
    LET present == SelectSeq(df, LAMBDA r : notna(r[c]))
    IN  [i \in DOMAIN present |-> Val(present[i][c])]

\* DataFrame.round(2) of the quotient num / den: hundredths, ties to even
Round2(num, den) ==
    LET q == (100 * num) \div den
        r == (100 * num) % den
    IN  IF 2 * r > den THEN q + 1
        ELSE IF 2 * r = den THEN q + (q % 2)
        ELSE q

\* Series.mean().round(2): NaN when no value is present
MeanRound2(vals) ==
    IF vals = <<>> THEN NaN ELSE Some(Round2(SumSeq(vals), Len(vals)))

\* a view's results: the absence None, a value, or a raised exception
None == [kind |-> "None"]

Raised == [kind |-> "raise"]

\* df.columns; an empty table is never asked for its columns
columns(df) == IF df = <<>> THEN {} ELSE DOMAIN df[1]

\* df[c], groupby(c) and agg({c: ...}) raise KeyError when df lacks column c
KeyError(df, cs) == \E c \in cs : c \notin columns(df)

\* a row without columns
NoColumns == [c \in {} |-> NaN]

(***************************************************************************)
(* Record normalizer                                                       *)
(***************************************************************************)
HoursPerDay == 24

DaysPerWeek == 7

\* .dt.date / .dt.hour / .dt.weekday of a timestamp column; NaT gives NaN
dt_date(t) == IF isna(t) THEN NaN ELSE Some(Val(t) \div HoursPerDay)

dt_hour(t) == IF isna(t) THEN NaN ELSE Some(Val(t) % HoursPerDay)

\* day 0 is a Thursday (weekday 3, Monday being 0)
EpochWeekday == 3

dt_weekday(t) ==
    IF isna(t) THEN NaN
    ELSE Some(((Val(t) \div HoursPerDay) + EpochWeekday) % DaysPerWeek)

DayNames ==
    <<"Monday", "Tuesday", "Wednesday", "Thursday", "Friday", "Saturday", "Sunday">>

\* groupby('weekday') orders the day names as text
DayNamesSorted ==
    <<"Friday", "Monday", "Saturday", "Sunday", "Thursday", "Tuesday", "Wednesday">>

dt_day_name(t) == IF isna(t) THEN NaN ELSE Some(DayNames[Val(dt_weekday(t)) + 1])

\* a cell whose text is no ISO 8601 timestamp
Unparseable == 0 - 1

\* faulty variant: a text that is no timestamp becomes the epoch
to_datetime_epoch(cell) ==
    IF isna(cell) THEN NaN ELSE IF Val(cell) = Unparseable THEN Some(0) ELSE cell

\* pd.to_datetime(df[col], format='ISO8601', errors='coerce'): a missing cell
\* and a text that is no timestamp both become NaT
to_datetime(cell) == IF isna(cell) \/ Val(cell) = Unparseable THEN NaN ELSE cell

\* the columns are added to the table passed in, which is also returned
_process_messages(df) ==
    [i \in DOMAIN df |->
        LET row     == df[i]
            created == to_datetime(row.createdAt)
            dates   == IF "createdAt" \in DOMAIN row
                       THEN [createdAt   |-> created,
                             date        |-> dt_date(created),
                             hour        |-> dt_hour(created),
                             weekday     |-> dt_day_name(created),
                             weekday_num |-> dt_weekday(created)]
                       ELSE NoColumns
            content == IF "messageValue" \in DOMAIN row
                       THEN [message_length |-> IF isna(row.messageValue) THEN NaN
                                                ELSE Some(Len(Val(row.messageValue))),
                             has_content    |-> notna(row.messageValue)
                                                /\ row.messageValue # Some(<<>>)]
                       ELSE NoColumns
        IN  dates @@ content @@ row]

\* pd.cut(x, bins, labels, include_lowest) with the default right=True, for
\* x = num / den: bin i is (bins[i], bins[i+1]], the first bin also holds
\* bins[1] when include_lowest; top_inf adds float('inf') as the last edge.
\* A value in no bin, or a missing value, is NaN.
cut(num, den, bins, labels, include_lowest, top_inf) ==
    LET n    == Len(bins)
        In(i) == /\ \/ num > bins[i] * den
                    \/ (include_lowest /\ i = 1 /\ num = bins[1] * den)
                 /\ IF i = n THEN top_inf ELSE num <= bins[i + 1] * den
        hits == {i \in 1..n : In(i) /\ i <= Len(labels)}
    IN  IF hits = {} THEN NaN ELSE Some(labels[CHOOSE i \in hits : TRUE])

RatingBins == <<0, 2, 3, 4, 5>>

RatingLabels == <<"Ruim", "Regular", "Bom", "Excelente">>

SecondsPerMinute == 60

\* df[col] / 60: the quotient kept exact as numerator and denominator
to_minutes(d) ==
    IF isna(d) THEN NaN ELSE Some([num |-> Val(d), den |-> SecondsPerMinute])


\* faulty variant: bins closed on the left, as pd.cut(..., right=False) makes them
rating_category_left_closed(stars) ==
    IF isna(stars) THEN NaN
    ELSE LET hits == {i \in 1..(Len(RatingBins) - 1) :
                          /\ Val(stars) >= RatingBins[i]
                          /\ \/ Val(stars) < RatingBins[i + 1]
                             \/ (i = Len(RatingBins) - 1 /\ Val(stars) = RatingBins[i + 1])}
         IN  IF hits = {} THEN NaN ELSE Some(RatingLabels[CHOOSE i \in hits : TRUE])

rating_category(stars) ==
    IF isna(stars) THEN NaN
    ELSE cut(Val(stars), 1, RatingBins, RatingLabels, TRUE, FALSE)

_process_sessions(df) ==
    [i \in DOMAIN df |->
        LET row      == df[i]
            created  == to_datetime(row.createdAt)
            dates    == IF "createdAt" \in DOMAIN row
                        THEN [createdAt |-> created,
                              date      |-> dt_date(created),
                              hour      |-> dt_hour(created),
                              weekday   |-> dt_day_name(created)]
                        ELSE NoColumns
            total    == IF "__sessionDuration" \in DOMAIN row
                        THEN [__sessionDuration_minutes |-> to_minutes(row.__sessionDuration)]
                        ELSE NoColumns
            queue    == IF "__sessionQueueDuration" \in DOMAIN row
                        THEN [__sessionQueueDuration_minutes |->
                                  to_minutes(row.__sessionQueueDuration)]
                        ELSE NoColumns
            manual   == IF "__sessionManualDuration" \in DOMAIN row
                        THEN [__sessionManualDuration_minutes |->
                                  to_minutes(row.__sessionManualDuration)]
                        ELSE NoColumns
            category == IF "sessionRatingStars" \in DOMAIN row
                        THEN [rating_category |-> rating_category(row.sessionRatingStars)]
                        ELSE NoColumns
        IN  dates @@ total @@ queue @@ manual @@ category @@ row]

(***************************************************************************)
(* Grouping helpers (DataFrame.groupby drops the rows whose key is NaN and *)
(* orders the groups by key)                                               *)
(***************************************************************************)
\* the key orders of the text-valued grouping columns
Operators == <<"Ana", "Bia", "Caio">>

Contacts == <<"c1", "c2", "c3">>

Channels == <<"webchat", "whatsapp">>

Motives == <<"inactivity", "resolved">>

Directions == <<"inbound", "outbound">>

\* the keys of column c present in df, in the order of `order`
GroupKeys(df, c, order) ==
    SelectSeq(order, LAMBDA k : \E i \in DOMAIN df : df[i][c] = Some(k))

\* the integer keys of column c present in df, ascending
IntKeys(df, c) ==
    SortedSeq({Val(df[i][c]) : i \in {j \in DOMAIN df : notna(df[j][c])}})

Group(df, c, k) == SelectSeq(df, LAMBDA r : r[c] = Some(k))

\* 'count': the rows of the group whose cell in column c is present
Count(df, c) == Len(Values(df, c))

\* faulty variant: repeated values are counted again
NUnique_with_repeats(df, c) == Len(Values(df, c))

\* 'nunique': the distinct present values of column c
NUnique(df, c) == Cardinality(Range(Values(df, c)))

\* 'median', rounded to two decimals
MedianRound2(vals) ==
    IF vals = <<>> THEN NaN
    ELSE LET v == SortInts(vals)
             n == Len(v)
         IN  IF n % 2 = 1 THEN Some(100 * v[(n + 1) \div 2])
             ELSE Some(Round2(v[n \div 2] + v[n \div 2 + 1], 2))

\* a float that may be infinite or NaN; finite values are hundredths
Finite(x100) == [kind |-> "finite", x100 |-> x100]

Inf == [kind |-> "inf", x100 |-> 0]

NegInf == [kind |-> "-inf", x100 |-> 0]

NaNFloat == [kind |-> "nan", x100 |-> 0]

\* (a / b).round(2) of numpy floats, a = an / ad and b = bn / bd with
\* ad, bd > 0: x / 0 is +-inf, 0 / 0 is nan, no exception is raised
FloatDivRound2(an, ad, bn, bd) ==
    IF bn = 0 THEN (IF an = 0 THEN NaNFloat ELSE IF an > 0 THEN Inf ELSE NegInf)
    ELSE IF bn > 0 THEN Finite(Round2(an * bd, ad * bn))
    ELSE Finite(Round2(0 - an * bd, 0 - ad * bn))

\* faulty variant: the rows are left in the order of their keys
SortDesc_skipped(rows, c) == rows

RECURSIVE SortDesc(_, _)
\* sort_values(c, ascending=False); rows with equal keys keep their order
SortDesc(rows, c) ==
    IF rows = <<>> THEN <<>>
    ELSE LET i == CHOOSE k \in DOMAIN rows :
                    /\ \A j \in DOMAIN rows : rows[k][c] >= rows[j][c]
                    /\ \A j \in 1..(k - 1) : rows[j][c] < rows[k][c]
         IN  <<rows[i]>> \o SortDesc(SubSeq(rows, 1, i - 1) \o SubSeq(rows, i + 1, Len(rows)), c)

(***************************************************************************)
(* CXAnalytics.operator_performance_analysis                               *)
(***************************************************************************)
SecondsPerHour == 3600

HighRating == 4

\* total_sessions / (avg_duration / 3600), rounded to two decimals
efficiency_sessions_per_hour(total_sessions, avg_duration) ==
    IF isna(avg_duration) THEN NaNFloat
    ELSE FloatDivRound2(total_sessions, 1, Val(avg_duration), 100 * SecondsPerHour)


\* faulty variant: only ratings above 4 count as high
satisfaction_rate_above(operator_sessions) ==
    LET ratings       == Values(operator_sessions, "sessionRatingStars")
        high_ratings  == Len(SelectSeq(ratings, LAMBDA x : x > HighRating))
        total_ratings == Len(ratings)
    IN  IF total_ratings > 0
        THEN [num |-> high_ratings * 100, den |-> total_ratings]
        ELSE [num |-> 0, den |-> 1]

\* (high_ratings / total_ratings * 100) if total_ratings > 0 else 0
satisfaction_rate(operator_sessions) ==
    LET ratings       == Values(operator_sessions, "sessionRatingStars")
        high_ratings  == Len(SelectSeq(ratings, LAMBDA x : x >= HighRating))
        total_ratings == Len(ratings)
    IN  IF total_ratings > 0
        THEN [num |-> high_ratings * 100, den |-> total_ratings]
        ELSE [num |-> 0, den |-> 1]

\* one row of operator_metrics (the 'std' column is not modelled)
operator_row(df, operator) ==
    LET g   == Group(df, "operatorFirstname", operator)
        n   == Count(g, "sessionID")
        avg == MeanRound2(Values(g, "__sessionDuration"))
    IN  [operator                     |-> operator,
         total_sessions               |-> n,
         avg_duration                 |-> avg,
         median_duration              |-> MedianRound2(Values(g, "__sessionDuration")),
         avg_queue_time               |-> MeanRound2(Values(g, "__sessionQueueDuration")),
         median_queue_time            |-> MedianRound2(Values(g, "__sessionQueueDuration")),
         avg_manual_time              |-> MeanRound2(Values(g, "__sessionManualDuration")),
         median_manual_time           |-> MedianRound2(Values(g, "__sessionManualDuration")),
         avg_rating                   |-> MeanRound2(Values(g, "sessionRatingStars")),
         total_ratings                |-> Count(g, "sessionRatingStars"),
         total_messages               |-> SumSeq(Values(g, "__sessionMessagesCount")),
         avg_messages_per_session     |-> MeanRound2(Values(g, "__sessionMessagesCount")),
         efficiency_sessions_per_hour |-> efficiency_sessions_per_hour(n, avg),
         satisfaction_rate            |-> satisfaction_rate(g)]

\* the columns aggregated for each operator
OperatorColumns ==
    {"sessionID", "__sessionDuration", "__sessionQueueDuration", "__sessionManualDuration",
     "sessionRatingStars", "__sessionMessagesCount"}

operator_performance_analysis(df) ==
    IF df = <<>> \/ "operatorFirstname" \notin columns(df) THEN None
    ELSE IF KeyError(df, OperatorColumns) THEN Raised
    ELSE LET keys == GroupKeys(df, "operatorFirstname", Operators)
             operator_metrics == [i \in DOMAIN keys |-> operator_row(df, keys[i])]
         IN  [kind |-> "value", rows |-> SortDesc(operator_metrics, "total_sessions")]

(***************************************************************************)
(* CXAnalytics.response_time_analysis                                      *)
(***************************************************************************)
response_row(g, key) ==
    [key             |-> key,
     queue_mean      |-> MeanRound2(Values(g, "__sessionQueueDuration")),
     queue_median    |-> MedianRound2(Values(g, "__sessionQueueDuration")),
     queue_count     |-> Count(g, "__sessionQueueDuration"),
     duration_mean   |-> MeanRound2(Values(g, "__sessionDuration")),
     duration_median |-> MedianRound2(Values(g, "__sessionDuration"))]

response_time_analysis(df) ==
    IF df = <<>> THEN None
    ELSE IF KeyError(df, {"hour", "weekday", "__sessionQueueDuration", "__sessionDuration"})
    THEN Raised
    ELSE LET hours == IntKeys(df, "hour")
             days  == GroupKeys(df, "weekday", DayNamesSorted)
         IN  [kind   |-> "value",
              hourly |-> [i \in DOMAIN hours |-> response_row(Group(df, "hour", hours[i]), hours[i])],
              weekly |-> [i \in DOMAIN days |-> response_row(Group(df, "weekday", days[i]), days[i])]]

(***************************************************************************)
(* CXAnalytics.message_sentiment_analysis                                  *)
(***************************************************************************)
problem_keywords ==
    << <<"p", "r", "o", "b", "l", "e", "m", "a">>,
       <<"e", "r", "r", "o">>,
       <<"f", "a", "l", "h", "a">>,
       <<"r", "u", "i", "m">>,
       <<"p", "é", "s", "s", "i", "m", "o">>,
       <<"t", "e", "r", "r", "í", "v", "e", "l">>,
       <<"h", "o", "r", "r", "í", "v", "e", "l">>,
       <<"d", "e", "m", "o", "r", "a">>,
       <<"l", "e", "n", "t", "o">>,
       <<"n", "ã", "o", " ", "f", "u", "n", "c", "i", "o", "n", "a">>,
       <<"q", "u", "e", "b", "r", "a", "d", "o">>,
       <<"d", "e", "f", "e", "i", "t", "o">>,
       <<"r", "e", "c", "l", "a", "m", "a", "ç", "ã", "o">>,
       <<"i", "n", "s", "a", "t", "i", "s", "f", "e", "i", "t", "o">>,
       <<"c", "a", "n", "c", "e", "l", "a", "r">>,
       <<"r", "e", "e", "m", "b", "o", "l", "s", "o">>,
       <<"d", "e", "v", "o", "l", "v", "e", "r">> >>

positive_keywords ==
    << <<"o", "b", "r", "i", "g", "a", "d", "o">>,
       <<"o", "b", "r", "i", "g", "a", "d", "a">>,
       <<"e", "x", "c", "e", "l", "e", "n", "t", "e">>,
       <<"ó", "t", "i", "m", "o">>,
       <<"p", "e", "r", "f", "e", "i", "t", "o">>,
       <<"m", "a", "r", "a", "v", "i", "l", "h", "o", "s", "o">>,
       <<"s", "a", "t", "i", "s", "f", "e", "i", "t", "o">>,
       <<"f", "e", "l", "i", "z">>,
       <<"r", "e", "c", "o", "m", "e", "n", "d", "o">>,
       <<"p", "a", "r", "a", "b", "é", "n", "s">>,
       <<"a", "d", "o", "r", "e", "i">>,
       <<"a", "m", "e", "i">> >>

UpperCase ==
    <<"A", "B", "C", "D", "E", "F", "G", "H", "I", "J", "K", "L", "M", "N", "O", "P", "Q", "R", "S", "T", "U", "V", "W", "X", "Y", "Z", "Á", "É", "Í", "Ó", "Ú", "Â", "Ê", "Ô", "Ã", "Õ", "Ç">>

LowerCase ==
    <<"a", "b", "c", "d", "e", "f", "g", "h", "i", "j", "k", "l", "m", "n", "o", "p", "q", "r", "s", "t", "u", "v", "w", "x", "y", "z", "á", "é", "í", "ó", "ú", "â", "ê", "ô", "ã", "õ", "ç">>

\* str.lower(), character by character
lower_char(ch) ==
    IF \E i \in DOMAIN UpperCase : UpperCase[i] = ch
    THEN LowerCase[CHOOSE i \in DOMAIN UpperCase : UpperCase[i] = ch]
    ELSE ch

str_lower(text) == [i \in DOMAIN text |-> lower_char(text[i])]

\* `keyword in text`: keyword occurs as a contiguous run of text
contains(text, keyword) ==
    \E i \in 1..(Len(text) - Len(keyword) + 1) :
        SubSeq(text, i, i + Len(keyword) - 1) = keyword

\* sum(1 for keyword in keywords if keyword in text)
keyword_count(keywords, text) ==
    Cardinality({k \in DOMAIN keywords : contains(text, keywords[k])})


\* faulty variant: a tie of the two counts is labelled negative
detect_sentiment_tie_negative(text) ==
    IF isna(text) THEN "neutral"
    ELSE LET problem_count  == keyword_count(problem_keywords, Val(text))
             positive_count == keyword_count(positive_keywords, Val(text))
         IN  IF problem_count >= positive_count /\ problem_count > 0 THEN "negative"
             ELSE IF positive_count > problem_count THEN "positive"
             ELSE "neutral"

\* text is a cell of message_lower: NaN or <<lower-cased content>>
detect_sentiment(text) ==
    IF isna(text) THEN "neutral"
    ELSE LET problem_count  == keyword_count(problem_keywords, Val(text))
             positive_count == keyword_count(positive_keywords, Val(text))
         IN  IF problem_count > positive_count THEN "negative"
             ELSE IF positive_count > problem_count THEN "positive"
             ELSE "neutral"

Sentiments == <<"negative", "neutral", "positive">>

SampleSize == 10

\* faulty variant: the direction of the message is not looked at
inbound_filter_any_direction(df) ==
    SelectSeq(df, LAMBDA r : notna(r.messageValue))

\* the rows the classifier analyses
inbound_filter(df) ==
    SelectSeq(df, LAMBDA r : r.messageDirection = Some("inbound") /\ notna(r.messageValue))

\* inbound_messages with its two added columns, as (row, message_lower, sentiment)
inbound_messages(df) ==
    LET rows == inbound_filter(df)
    IN  [i \in DOMAIN rows |->
            LET message_lower == Some(str_lower(Val(rows[i].messageValue)))
            IN  [row           |-> rows[i],
                 message_lower |-> message_lower,
                 sentiment     |-> detect_sentiment(message_lower)]]

\* value_counts(): the labels that occur, each with its number of rows
value_counts(labels) ==
    [l \in Range(labels) |-> Cardinality({i \in DOMAIN labels : labels[i] = l})]

message_sentiment_analysis(df) ==
    IF df = <<>> \/ "messageValue" \notin columns(df) THEN None
    ELSE IF KeyError(df, {"messageDirection"}) THEN Raised
    ELSE LET inb == inbound_messages(df)
         IN  IF inb = <<>> THEN None
             ELSE IF KeyError(df, {"date"}) THEN Raised
             ELSE LET labels == [i \in DOMAIN inb |-> inb[i].sentiment]
                      dated  == SelectSeq(inb, LAMBDA m : notna(m.row.date))
                      dates  == {Val(m.row.date) : m \in Range(dated)}
                      cols   == {m.sentiment : m \in Range(dated)}
                      neg    == SelectSeq(inb, LAMBDA m : m.sentiment = "negative")
                  IN  [kind    |-> "value",
                       overall |-> value_counts(labels),
                       by_date |-> [d \in dates |-> [l \in cols |->
                                      Cardinality({i \in DOMAIN dated :
                                          /\ dated[i].row.date = Some(d)
                                          /\ dated[i].sentiment = l})]],
                       sample_negative |->
                           [i \in 1..(IF Len(neg) < SampleSize THEN Len(neg) ELSE SampleSize)
                               |-> neg[i].row.messageValue]]

(***************************************************************************)
(* CXAnalytics.peak_hours_analysis                                         *)
(***************************************************************************)
\* Series.quantile(0.8), linear interpolation between the two nearest order
\* statistics, as the exact quotient num / den; NaN for an empty series
QuantileNum == 4

QuantileDen == 5


\* faulty variant: quantile(0.8, interpolation='lower'), the lower order statistic
quantile_lower(vals) ==
    IF vals = <<>> THEN NaN
    ELSE LET v == SortInts(vals)
             i == (QuantileNum * (Len(v) - 1)) \div QuantileDen
         IN  Some([num |-> QuantileDen * v[i + 1], den |-> QuantileDen])

quantile(vals) ==
    IF vals = <<>> THEN NaN
    ELSE LET v    == SortInts(vals)
             pos  == QuantileNum * (Len(v) - 1)
             i    == pos \div QuantileDen
             frac == pos % QuantileDen
         IN  Some([num |-> IF frac = 0 THEN QuantileDen * v[i + 1]
                           ELSE QuantileDen * v[i + 1] + frac * (v[i + 2] - v[i + 1]),
                   den |-> QuantileDen])

\* groupby(['hour', 'messageDirection']).size().unstack(fill_value=0)
hourly_volume(df) ==
    LET counted == SelectSeq(df, LAMBDA r : notna(r.hour) /\ notna(r.messageDirection))
        hours   == IntKeys(counted, "hour")
        cols    == GroupKeys(counted, "messageDirection", Directions)
    IN  [i \in DOMAIN hours |->
            [hour   |-> hours[i],
             counts |-> [j \in DOMAIN cols |->
                           Len(SelectSeq(counted, LAMBDA r :
                               r.hour = Some(hours[i]) /\ r.messageDirection = Some(cols[j])))]]]


\* faulty variant: only the hours strictly above the threshold are peak hours
peak_hours_strict(volume) ==
    LET total_hourly   == [i \in DOMAIN volume |-> SumSeq(volume[i].counts)]
        peak_threshold == quantile(total_hourly)
        peak == SelectSeq([i \in DOMAIN volume |-> i], LAMBDA i :
                    /\ notna(peak_threshold)
                    /\ total_hourly[i] * Val(peak_threshold).den > Val(peak_threshold).num)
    IN  [i \in DOMAIN peak |-> volume[peak[i]].hour]

\* total_hourly[total_hourly >= peak_threshold].index.tolist()
peak_hours(volume) ==
    LET total_hourly   == [i \in DOMAIN volume |-> SumSeq(volume[i].counts)]
        peak_threshold == quantile(total_hourly)
        peak == SelectSeq([i \in DOMAIN volume |-> i], LAMBDA i :
                    /\ notna(peak_threshold)
                    /\ total_hourly[i] * Val(peak_threshold).den >= Val(peak_threshold).num)
    IN  [i \in DOMAIN peak |-> volume[peak[i]].hour]

\* groupby(['weekday_num', 'hour']).size().reset_index(name='volume')
heatmap_data(df) ==
    LET counted == SelectSeq(df, LAMBDA r : notna(r.hour) /\ notna(r.weekday_num))
        cells   == SortedSeq({Val(r.weekday_num) * HoursPerDay + Val(r.hour) : r \in Range(counted)})
    IN  [i \in DOMAIN cells |->
            [weekday_num |-> cells[i] \div HoursPerDay,
             hour        |-> cells[i] % HoursPerDay,
             volume      |-> Len(SelectSeq(counted, LAMBDA r :
                                Val(r.weekday_num) * HoursPerDay + Val(r.hour) = cells[i]))]]


\* faulty variant: no early return for an empty table
peak_hours_analysis_unguarded(df) ==
    LET volume == hourly_volume(df)
    IN  [kind          |-> "value",
         hourly_volume |-> volume,
         peak_hours    |-> peak_hours(volume),
         heatmap_data  |-> heatmap_data(df)]

peak_hours_analysis(df) ==
    IF df = <<>> THEN None
    ELSE IF KeyError(df, {"hour", "messageDirection", "weekday_num"}) THEN Raised
    ELSE LET volume == hourly_volume(df)
         IN  [kind          |-> "value",
              hourly_volume |-> volume,
              peak_hours    |-> peak_hours(volume),
              heatmap_data  |-> heatmap_data(df)]

(***************************************************************************)
(* CXAnalytics.channel_efficiency_analysis                                 *)
(***************************************************************************)
channel_row(df, channel) ==
    LET g == Group(df, "messageChannel", channel)
    IN  [channel              |-> channel,
         total_messages       |-> Count(g, "messageID"),
         unique_sessions      |-> NUnique(g, "sessionID"),
         unique_contacts      |-> NUnique(g, "contactID"),
         messages_per_session |->
             FloatDivRound2(Count(g, "messageID"), 1, NUnique(g, "sessionID"), 1)]

channel_efficiency_analysis(df) ==
    IF df = <<>> \/ "messageChannel" \notin columns(df) THEN None
    ELSE IF KeyError(df, {"messageID", "sessionID", "contactID"}) THEN Raised
    ELSE LET keys == GroupKeys(df, "messageChannel", Channels)
             channel_stats == [i \in DOMAIN keys |-> channel_row(df, keys[i])]
         IN  [kind |-> "value", rows |-> SortDesc(channel_stats, "total_messages")]

(***************************************************************************)
(* CXAnalytics.resolution_pattern_analysis                                 *)
(***************************************************************************)
DurationBins == <<0, 5, 15, 30, 60>>

DurationLabels ==
    <<"Muito Rápida (0-5min)", "Rápida (5-15min)", "Média (15-30min)",
      "Longa (30-60min)", "Muito Longa (60min+)">>


\* faulty variant: include_lowest=True, so that a duration of 0 is in the first band
duration_category_include_lowest(duration) ==
    IF isna(duration) THEN NaN
    ELSE cut(Val(duration), SecondsPerMinute, DurationBins, DurationLabels, TRUE, TRUE)

\* pd.cut(__sessionDuration / 60, bins=[0, 5, 15, 30, 60, inf], labels=...)
duration_category(duration) ==
    IF isna(duration) THEN NaN
    ELSE cut(Val(duration), SecondsPerMinute, DurationBins, DurationLabels, FALSE, TRUE)

close_motive_row(df, motive) ==
    LET g == Group(df, "closeMotive", motive)
    IN  [closeMotive    |-> motive,
         total_sessions |-> Count(g, "sessionID"),
         avg_duration   |-> MeanRound2(Values(g, "__sessionDuration")),
         avg_messages   |-> MeanRound2(Values(g, "__sessionMessagesCount")),
         avg_rating     |-> MeanRound2(Values(g, "sessionRatingStars"))]

\* groupby('category')['rating'].agg(['count', 'mean']): one row per band
duration_analysis(df) ==
    [b \in DOMAIN DurationLabels |->
        LET g == SelectSeq(df, LAMBDA r :
                     duration_category(r.__sessionDuration) = Some(DurationLabels[b]))
        IN  [category |-> DurationLabels[b],
             count    |-> Count(g, "sessionRatingStars"),
             mean     |-> MeanRound2(Values(g, "sessionRatingStars"))]]

resolution_pattern_analysis(df) ==
    IF df = <<>> THEN None
    ELSE IF \/ /\ "closeMotive" \in columns(df)
               /\ KeyError(df, {"sessionID", "__sessionDuration", "__sessionMessagesCount",
                                "sessionRatingStars"})
            \/ /\ "__sessionDuration" \in columns(df)
               /\ KeyError(df, {"sessionRatingStars"})
    THEN Raised
    ELSE LET keys == GroupKeys(df, "closeMotive", Motives)
         IN  [kind              |-> "value",
              close_motives     |-> IF "closeMotive" \in columns(df)
                                    THEN [i \in DOMAIN keys |-> close_motive_row(df, keys[i])]
                                    ELSE None,
              duration_analysis |-> IF "__sessionDuration" \in columns(df)
                                    THEN duration_analysis(df)
                                    ELSE None]

(***************************************************************************)
(* CXAnalytics.customer_journey_analysis                                   *)
(***************************************************************************)

\* faulty variant: the Occasional band ends before 3
classify_customer_lt3(total_sessions) ==
    IF total_sessions = 1 THEN "Único Contato"
    ELSE IF total_sessions < 3 THEN "Ocasional"
    ELSE IF total_sessions <= 10 THEN "Regular"
    ELSE "Frequente"

classify_customer(total_sessions) ==
    IF total_sessions = 1 THEN "Único Contato"
    ELSE IF total_sessions <= 3 THEN "Ocasional"
    ELSE IF total_sessions <= 10 THEN "Regular"
    ELSE "Frequente"

CustomerTypes == <<"Frequente", "Ocasional", "Regular", "Único Contato">>

\* faulty variant: the span is rounded to the nearest day
dt_days_rounded(hours) == (hours + HoursPerDay \div 2) \div HoursPerDay

\* Timedelta.dt.days of a span given in hours: the whole days in it
dt_days(hours) == hours \div HoursPerDay

journey_row(df, contact) ==
    LET g       == Group(df, "contactID", contact)
        created == Values(g, "createdAt")
        first   == IF created = <<>> THEN NaN ELSE Some(SortInts(created)[1])
        last    == IF created = <<>> THEN NaN ELSE Some(SortInts(created)[Len(created)])
        n       == NUnique(g, "sessionID")
    IN  [contactID         |-> contact,
         total_sessions    |-> n,
         total_messages    |-> Count(g, "messageID"),
         first_contact     |-> first,
         last_contact      |-> last,
         relationship_days |-> IF isna(first) THEN NaN
                               ELSE Some(dt_days(Val(last) - Val(first))),
         customer_type     |-> classify_customer(n)]

customer_type_row(journey, type) ==
    LET g == SelectSeq(journey, LAMBDA r : r.customer_type = type)
    IN  [customer_type     |-> type,
         total_sessions    |-> MeanRound2([i \in DOMAIN g |-> g[i].total_sessions]),
         total_messages    |-> MeanRound2([i \in DOMAIN g |-> g[i].total_messages]),
         relationship_days |-> MeanRound2(Values(g, "relationship_days"))]

customer_journey_analysis(df) ==
    IF df = <<>> THEN None
    ELSE IF KeyError(df, {"contactID", "sessionID", "messageID", "createdAt"}) THEN Raised
    ELSE LET keys    == GroupKeys(df, "contactID", Contacts)
             journey == [i \in DOMAIN keys |-> journey_row(df, keys[i])]
             types   == SelectSeq(CustomerTypes, LAMBDA t :
                            \E i \in DOMAIN journey : journey[i].customer_type = t)
         IN  [kind               |-> "value",
              individual_journey |-> journey,
              customer_types     |-> [i \in DOMAIN types |-> customer_type_row(journey, types[i])],
              type_distribution  |-> value_counts([i \in DOMAIN journey |-> journey[i].customer_type])]

(***************************************************************************)
(* CXAnalytics.generate_insights_report                                    *)
(***************************************************************************)
\* a >= b for floats that are not NaN
FloatGE(a, b) ==
    \/ a.kind = "inf"
    \/ b.kind = "-inf"
    \/ (a.kind = "finite" /\ b.kind = "finite" /\ a.x100 >= b.x100)

\* Series.idxmax() of a column of missing-or-number cells: the first row
\* holding the largest present value; {} when there is none (idxmax raises)
idxmax_number(rows, c) ==
    {i \in DOMAIN rows :
        /\ notna(rows[i][c])
        /\ \A j \in DOMAIN rows : notna(rows[j][c]) => Val(rows[i][c]) >= Val(rows[j][c])
        /\ \A j \in 1..(i - 1) : notna(rows[j][c]) => Val(rows[j][c]) < Val(rows[i][c])}

\* the same for a float column
idxmax_float(rows, c) ==
    {i \in DOMAIN rows :
        /\ rows[i][c].kind # "nan"
        /\ \A j \in DOMAIN rows : rows[j][c].kind # "nan" => FloatGE(rows[i][c], rows[j][c])
        /\ \A j \in 1..(i - 1) : rows[j][c].kind # "nan" => ~FloatGE(rows[j][c], rows[i][c])}

\* part / total * 100 of numpy integers: 0 / 0 is nan
percentage(part, total) ==
    IF total = 0 THEN [kind |-> "nan", num |-> 0, den |-> 1]
    ELSE [kind |-> "finite", num |-> part * 100, den |-> total]

\* Series.get(key, 0)
get(counts, key) == IF key \in DOMAIN counts THEN counts[key] ELSE 0

total_count(counts) ==
    LET RECURSIVE Sum(_)
        Sum(K) == IF K = {} THEN 0
                  ELSE LET k == CHOOSE x \in K : TRUE IN counts[k] + Sum(K \ {k})
    IN  Sum(DOMAIN counts)

operator_insights(operator_perf) ==
    IF operator_perf.kind = "None" THEN <<>>
    ELSE LET rows == operator_perf.rows
             best == rows[CHOOSE i \in idxmax_number(rows, "avg_rating") : TRUE]
             most == rows[CHOOSE i \in idxmax_float(rows, "efficiency_sessions_per_hour") : TRUE]
         IN  << [fact |-> "best_rated", operator |-> best.operator,
                 avg_rating |-> best.avg_rating],
                [fact |-> "most_efficient", operator |-> most.operator,
                 efficiency |-> most.efficiency_sessions_per_hour] >>

\* idxmax of an empty or all-NaN column raises and the report is lost
operator_insights_raise(operator_perf) ==
    /\ operator_perf.kind = "value"
    /\ \/ idxmax_number(operator_perf.rows, "avg_rating") = {}
       \/ idxmax_float(operator_perf.rows, "efficiency_sessions_per_hour") = {}

generate_insights_report(msgs, sess) ==
    LET operator_perf == operator_performance_analysis(sess)
        sentiment     == message_sentiment_analysis(msgs)
        peak_analysis == peak_hours_analysis(msgs)
        journey       == customer_journey_analysis(msgs)
    IN  IF \/ "raise" \in {operator_perf.kind, sentiment.kind, peak_analysis.kind, journey.kind}
           \/ operator_insights_raise(operator_perf)
        THEN Raised
        ELSE [kind |-> "value",
              insights |->
                  operator_insights(operator_perf)
                  \o (IF sentiment.kind = "None" THEN <<>>
                      ELSE << [fact |-> "negative_pct",
                               pct  |-> percentage(get(sentiment.overall, "negative"),
                                                   total_count(sentiment.overall))] >>)
                  \o (IF peak_analysis.kind = "None" THEN <<>>
                      ELSE << [fact |-> "peak_hours", hours |-> peak_analysis.peak_hours] >>)
                  \o (IF journey.kind = "None" THEN <<>>
                      ELSE << [fact |-> "frequent_pct",
                               pct  |-> percentage(get(journey.type_distribution, "Frequente"),
                                                   total_count(journey.type_distribution))] >>)]

(***************************************************************************)
(* Input tables                                                            *)
(***************************************************************************)
RawMessage(id, session, contact, direction, value, created) ==
    [messageID        |-> Some(id),
     sessionID        |-> session,
     contactID        |-> contact,
     messageDirection |-> direction,
     messageChannel   |-> Some("whatsapp"),
     messageValue     |-> value,
     createdAt        |-> created]

RawSession(id, contact, operator, created, duration, rating) ==
    [sessionID               |-> Some(id),
     contactID               |-> contact,
     operatorFirstname       |-> operator,
     createdAt               |-> created,
     closeMotive             |-> Some("resolved"),
     sessionRatingStars      |-> rating,
     __sessionDuration       |-> duration,
     __sessionQueueDuration  |-> Some(30),
     __sessionManualDuration |-> duration,
     __sessionMessagesCount  |-> Some(4)]

\* all sequences of length at most n over the set S
SeqsUpTo(S, n) == UNION {[1..k -> S] : k \in 0..n}

TextOk == <<"o", "k">>

TextScenario ==
    <<"o", " ", "s", "i", "s", "t", "e", "m", "a", " ", "n", "ã", "o", " ", "f", "u", "n", "c", "i", "o", "n", "a", ",", " ", "q", "u", "e", " ", "p", "r", "o", "b", "l", "e", "m", "a">>

TextThanks == <<"O", "b", "r", "i", "g", "a", "d", "o">>

TextTie == <<"e", "r", "r", "o", ",", " ", "o", "b", "r", "i", "g", "a", "d", "o">>

\* -- contacts with a given number of sessions (segmentation)
MaxSessions == 12

JourneyExtras == {"none", "repeat", "nosession", "other", "late"}

JourneyRaw(k, extra) ==
    LET base == [i \in 1..k |->
                    RawMessage(i, Some(i), Some("c1"), Some("inbound"), Some(TextOk),
                               Some(HoursPerDay * (i - 1) + 9))]
        more == CASE extra = "none" -> <<>>
                  [] extra = "repeat" ->
                        <<RawMessage(k + 1, Some(1), Some("c1"), Some("outbound"),
                                     Some(TextOk), Some(10))>>
                  [] extra = "nosession" ->
                        <<RawMessage(k + 1, NaN, Some("c1"), Some("inbound"),
                                     Some(TextOk), Some(11))>>
                  [] extra = "other" ->
                        <<RawMessage(k + 1, Some(k + 1), Some("c2"), Some("inbound"),
                                     Some(TextOk), NaN)>>
                  [] extra = "late" ->
                        <<RawMessage(k + 1, Some(1), Some("c1"), Some("inbound"),
                                     Some(TextOk), Some(HoursPerDay * (k + 1) + 22))>>
    IN  base \o more

JourneyTables == {JourneyRaw(k, e) : k \in 0..MaxSessions, e \in JourneyExtras}

\* -- texts in both directions (sentiment)
MaxMsgs == 2

SentimentCells ==
    {NaN, Some(TextOk), Some(TextScenario), Some(TextThanks), Some(TextTie)}

SentimentRaw(cells) ==
    [i \in DOMAIN cells |->
        RawMessage(i, Some(1), Some("c1"), Some(cells[i].direction), cells[i].value,
                   Some(HoursPerDay * (i - 1) + 9))]

SentimentTables ==
    {SentimentRaw(c) :
        c \in SeqsUpTo([direction : {"inbound", "outbound"}, value : SentimentCells], MaxMsgs)}

\* -- a number of messages for each hour of the day (peak hours)
MaxHour == 3

MaxPerHour == 3

RECURSIVE PeakRows(_, _)
\* f[h] messages at hour h, alternately inbound and outbound, for h = from..MaxHour
PeakRows(f, from) ==
    IF from > MaxHour THEN <<>>
    ELSE [i \in 1..f[from] |->
             RawMessage(0, Some(1), Some("c1"),
                        Some(IF i % 2 = 1 THEN "inbound" ELSE "outbound"),
                        Some(TextOk), Some(from))]
         \o PeakRows(f, from + 1)

\* stray: one message without timestamp and one without direction are added
PeakRaw(f, stray) ==
    LET rows == PeakRows(f, 0)
                \o (IF stray
                    THEN << RawMessage(0, Some(1), Some("c1"), Some("inbound"), Some(TextOk), NaN),
                            RawMessage(0, Some(1), Some("c1"), NaN, Some(TextOk), Some(0)) >>
                    ELSE <<>>)
    IN  [i \in DOMAIN rows |-> [rows[i] EXCEPT !.messageID = Some(i)]]

PeakTables == {PeakRaw(f, b) : f \in [0..MaxHour -> 0..MaxPerHour], b \in BOOLEAN}

\* -- sessions of two operators with varying ratings (satisfaction)
MaxRows == 3

ScenarioDurations == <<600, 1200, 900>>

ScenarioRatings == <<5, 5, 4>>

Cycle(s, i) == s[((i - 1) % Len(s)) + 1]

RatingCells ==
    [operator : {Some("Ana"), Some("Bia")}, rating : {NaN, Some(3), Some(4), Some(5)}]
    \cup {[operator |-> NaN, rating |-> Some(5)]}

RatingRaw(cells) ==
    [i \in DOMAIN cells |->
        RawSession(i, Some("c1"), cells[i].operator, Some(HoursPerDay * (i - 1) + 9),
                   Some(Cycle(ScenarioDurations, i)), cells[i].rating)]

RatingTables == {RatingRaw(c) : c \in SeqsUpTo(RatingCells, MaxRows)}

\* -- sessions of two operators with varying durations (efficiency)
DurationCells ==
    [operator : {Some("Ana"), Some("Bia")}, duration : {NaN, Some(0), Some(600), Some(900)}]

DurationRaw(cells) ==
    [i \in DOMAIN cells |->
        RawSession(i, Some("c1"), cells[i].operator, Some(HoursPerDay * (i - 1) + 9),
                   cells[i].duration, Some(Cycle(ScenarioRatings, i)))]

DurationTables ==
    {DurationRaw(c) : c \in SeqsUpTo(DurationCells, MaxRows)}
    \cup {DurationRaw([i \in 1..Len(ScenarioDurations) |->
              [operator |-> Some("Ana"), duration |-> Some(ScenarioDurations[i])]])}

\* -- one session with each rating and each duration around the band edges
MaxStars == 6

EdgeSlack == 1

BandEdges == {0, 300, 900, 1800, 3600}

EdgeDurations ==
    {NaN} \cup {Some(e + d) : e \in BandEdges, d \in (0 - EdgeSlack)..EdgeSlack}

BucketTables ==
    {<<RawSession(1, Some("c1"), Some("Ana"), Some(9), d, r)>> :
        d \in EdgeDurations, r \in {NaN} \cup {Some(x) : x \in 0..MaxStars}}

\* -- small tables of both kinds (whole report)
MaxGeneral == 1

GeneralMessages ==
    {SentimentRaw(c) :
        c \in SeqsUpTo([direction : {"inbound", "outbound"},
                        value : {NaN, Some(TextScenario)}], MaxGeneral)}

GeneralSessions ==
    {DurationRaw(c) :
        c \in SeqsUpTo([operator : {NaN, Some("Ana")},
                        duration : {Some(0), Some(900)}], MaxGeneral)}

\* -- rows with and without a usable timestamp (time buckets)
MaxTimed == 3

TimeCells == {NaN, Some(Unparseable), Some(9), Some(HoursPerDay + 10)}

TimedMessages ==
    {[i \in DOMAIN c |->
         RawMessage(i, Some(1), Some("c1"), Some("inbound"), Some(TextOk), c[i])] :
        c \in SeqsUpTo(TimeCells, MaxTimed)}

TimedSessions ==
    {[i \in DOMAIN c |->
         RawSession(i, Some("c1"), Some("Ana"), c[i], Some(Cycle(ScenarioDurations, i)),
                    Some(Cycle(ScenarioRatings, i)))] :
        c \in SeqsUpTo(TimeCells, MaxTimed)}

\* -- rows with and without their identifier (malformed rows)
MaxIdRows == 3

\* present[i] tells whether row i has its identifier
IdMessages ==
    {[i \in DOMAIN present |->
         [RawMessage(i, Some(1), Some("c1"), Some("inbound"), Some(TextOk), Some(8 + i))
              EXCEPT !.messageID = IF present[i] THEN Some(i) ELSE NaN]] :
        present \in SeqsUpTo(BOOLEAN, MaxIdRows)}

IdSessions ==
    {[i \in DOMAIN present |->
         [RawSession(i, Some("c1"), Some("Ana"), Some(8 + i),
                     Some(Cycle(ScenarioDurations, i)), Some(Cycle(ScenarioRatings, i)))
              EXCEPT !.sessionID = IF present[i] THEN Some(i) ELSE NaN]] :
        present \in SeqsUpTo(BOOLEAN, MaxIdRows)}

\* -- more complaints than the sample holds (sentiment sample)
MaxNegatives == 12

TextErro == <<"E", "r", "r", "o">>

TextFalha == <<"f", "a", "l", "h", "a">>

TextRuim == <<"r", "u", "i", "m">>

SampleExtras == {"none", "outbound", "thanks", "nocontent"}

\* k inbound complaints, after one first message of another kind
SampleRaw(k, extra) ==
    LET first == CASE extra = "none" -> <<>>
                   [] extra = "outbound" ->
                         <<RawMessage(0, Some(1), Some("c1"), Some("outbound"),
                                      Some(TextFalha), Some(8))>>
                   [] extra = "thanks" ->
                         <<RawMessage(0, Some(1), Some("c1"), Some("inbound"),
                                      Some(TextThanks), Some(8))>>
                   [] extra = "nocontent" ->
                         <<RawMessage(0, Some(1), Some("c1"), Some("inbound"),
                                      NaN, Some(8))>>
        base  == [i \in 1..k |->
                     RawMessage(i, Some(1), Some("c1"), Some("inbound"),
                                Some(Cycle(<<TextErro, TextFalha, TextRuim>>, i)),
                                Some(HoursPerDay * (i % 2) + 9))]
    IN  first \o base

SampleTables == {SampleRaw(k, e) : k \in 0..MaxNegatives, e \in SampleExtras}

\* -- one inbound message whose content is a keyword (keyword lists)
KeywordMessage(keyword) ==
    <<RawMessage(1, Some(1), Some("c1"), Some("inbound"), Some(keyword), Some(9))>>

KeywordTables ==
    {KeywordMessage(k) : k \in Range(problem_keywords) \cup Range(positive_keywords)}

\* -- contacts of the two tables (segmentation)
MaxContactRows == 2

\* cells[i] gives the contact and the session of message i
ContactMessages ==
    {[i \in DOMAIN cells |->
         RawMessage(i, Some(cells[i].session), Some(cells[i].contact), Some("inbound"),
                    Some(TextOk), Some(HoursPerDay * (i - 1) + 9))] :
        cells \in SeqsUpTo([contact : {"c1", "c2"}, session : 1..2], MaxContactRows)}

\* contacts[i] is the contact of session i
ContactSessions ==
    {[i \in DOMAIN contacts |->
         RawSession(i, Some(contacts[i]), Some("Ana"), Some(HoursPerDay * (i - 1) + 9),
                    Some(Cycle(ScenarioDurations, i)), Some(Cycle(ScenarioRatings, i)))] :
        contacts \in SeqsUpTo({"c1", "c3"}, MaxContactRows)}

\* -- files that lack one column (input shape)
\* the table read from a file whose header has no column c
DropColumn(df, c) == [i \in DOMAIN df |-> [f \in DOMAIN df[i] \ {c} |-> df[i][f]]]

ColumnMessages ==
    LET full == SentimentRaw(<<[direction |-> "inbound", value |-> Some(TextScenario)],
                               [direction |-> "outbound", value |-> Some(TextOk)]>>)
    IN  {full} \cup {DropColumn(full, c) : c \in columns(full)}

ColumnSessions ==
    LET full == DurationRaw(<<[operator |-> Some("Ana"), duration |-> Some(900)],
                              [operator |-> Some("Bia"), duration |-> Some(600)]>>)
    IN  {full} \cup {DropColumn(full, c) : c \in columns(full)}

(***************************************************************************)
(* State machine: DataProcessor.load_all_data reads the tables and         *)
(* normalizes them, CXAnalytics is built on the result, then any view is   *)
(* called any number of times, in any order.  raw_messages / raw_sessions  *)
(* are the frames read from the files, the ones handed to the normalizer;  *)
(* `called` is the method called last and `ret` what it returned.  `files`  *)
(* tells what is in the data directory, and `script` holds the position    *)
(* and the local variables of the script being run (batch_analysis.py,     *)
(* run.py or app.py), if any.                                              *)
(***************************************************************************)
\* what os.path.exists and read_csv find at the path of a data file
FileStates == {"ok", "missing", "unreadable", "empty"}

FilesOk == [messages |-> "ok", sessions |-> "ok", sessions_plugins |-> "ok"]

\* DataProcessor and CXAnalytics used directly, outside the scripts
NoScript == [name |-> "none"]

LoadFrom(f, m, s) ==
    /\ files = f
    /\ raw_messages = m
    /\ raw_sessions = s
    /\ messages = <<>>
    /\ sessions = <<>>
    /\ called = "__init__"
    /\ ret = None
    /\ script = NoScript

Load(m, s) == LoadFrom(FilesOk, m, s)

Init == \E m \in GeneralMessages, s \in GeneralSessions : Load(m, s)

InitJourney == \E m \in JourneyTables : Load(m, <<>>)

InitSentiment == \E m \in SentimentTables : Load(m, <<>>)

InitPeak == \E m \in PeakTables : Load(m, <<>>)

InitRatings == \E s \in RatingTables : Load(<<>>, s)

InitDurations == \E s \in DurationTables : Load(<<>>, s)

InitBuckets == \E s \in BucketTables : Load(<<>>, s)

InitTimes ==
    \/ \E m \in TimedMessages : Load(m, <<>>)
    \/ \E s \in TimedSessions : Load(<<>>, s)

InitIds == \E m \in IdMessages, s \in IdSessions : Load(m, s)

InitColumns == \E m \in ColumnMessages, s \in ColumnSessions : Load(m, s)

InitContacts == \E m \in ContactMessages, s \in ContactSessions : Load(m, s)

InitSample == \E m \in SampleTables : Load(m, <<>>)

InitKeywords == \E m \in KeywordTables : Load(m, <<>>)

\* each of the two files present with rows, or missing, unreadable or of
\* zero bytes (nothing to read then)
InitFiles ==
    \E fm \in FileStates, fs \in FileStates, m \in GeneralMessages, s \in GeneralSessions :
        /\ fm # "ok" => m = <<>>
        /\ fs # "ok" => s = <<>>
        /\ LoadFrom([FilesOk EXCEPT !.messages = fm, !.sessions = fs], m, s)

\* what the frame handed to a normalizer holds once the normalizer returns:
\* every df[col] = ... assigns into that frame, and `return df` hands it back
frame_after(df, processed) == processed

\* what a loader hands back
Frame(df) == [kind |-> "value", df |-> df]

\* faulty variant: the error of read_csv reaches the caller
load_messages_reraise(state, df) ==
    IF state = "missing" THEN Frame(<<>>)
    ELSE IF state \in {"unreadable", "empty"} THEN Raised
    ELSE Frame(_process_messages(df))

\* load_messages: a missing file gives pd.DataFrame(); an exception of
\* read_csv (unreadable file, file of zero bytes) or of the normalizer is
\* caught and gives pd.DataFrame() too; df is what read_csv reads otherwise
load_messages(state, df) ==
    IF state = "missing" THEN Frame(<<>>)
    ELSE IF state \in {"unreadable", "empty"} THEN Frame(<<>>)
    ELSE Frame(_process_messages(df))

\* load_sessions: the same steps with the session normalizer
load_sessions(state, df) ==
    IF state = "missing" THEN Frame(<<>>)
    ELSE IF state \in {"unreadable", "empty"} THEN Frame(<<>>)
    ELSE Frame(_process_sessions(df))

\* load_all_data as a function of the files: the two tables and the result
load_all_data(f, m, s) ==
    LET lm == load_messages(f.messages, m)
        ls == load_sessions(f.sessions, s)
    IN  IF lm.kind = "raise" THEN [messages |-> <<>>, sessions |-> <<>>, ret |-> Raised]
        ELSE IF ls.kind = "raise" THEN [messages |-> lm.df, sessions |-> <<>>, ret |-> Raised]
        ELSE [messages |-> lm.df, sessions |-> ls.df, ret |-> [kind |-> "self"]]

LoadAllData ==
    /\ called = "__init__"
    /\ script = NoScript
    /\ messages' = load_all_data(files, raw_messages, raw_sessions).messages
    /\ sessions' = load_all_data(files, raw_messages, raw_sessions).sessions
    /\ raw_messages' = frame_after(raw_messages, messages')
    /\ raw_sessions' = frame_after(raw_sessions, sessions')
    /\ called' = "load_all_data"
    /\ ret' = load_all_data(files, raw_messages, raw_sessions).ret
    /\ UNCHANGED <<files, script>>

\* faulty variant: the classifier adds its lower-cased column to self.messages
tables_after_inplace(name, msgs, sess) ==
    IF name = "message_sentiment_analysis" /\ "messageValue" \in columns(msgs)
    THEN <<[i \in DOMAIN msgs |->
               [message_lower |-> IF isna(msgs[i].messageValue) THEN NaN
                                  ELSE Some(str_lower(Val(msgs[i].messageValue)))]
               @@ msgs[i]],
           sess>>
    ELSE <<msgs, sess>>

\* what self.messages and self.sessions hold after a view has run: no view
\* assigns to them (the classifier adds its columns to a copy)
tables_after(name, msgs, sess) == <<msgs, sess>>

Return(name, value) ==
    /\ called # "__init__"
    /\ script = NoScript
    /\ called' = name
    /\ ret' = value
    /\ messages' = tables_after(name, messages, sessions)[1]
    /\ sessions' = tables_after(name, messages, sessions)[2]
    /\ UNCHANGED <<raw_messages, raw_sessions, files, script>>

OperatorPerformance ==
    Return("operator_performance_analysis", operator_performance_analysis(sessions))

ResponseTime ==
    Return("response_time_analysis", response_time_analysis(sessions))

MessageSentiment ==
    Return("message_sentiment_analysis", message_sentiment_analysis(messages))

PeakHours ==
    Return("peak_hours_analysis", peak_hours_analysis(messages))

ChannelEfficiency ==
    Return("channel_efficiency_analysis", channel_efficiency_analysis(messages))

ResolutionPattern ==
    Return("resolution_pattern_analysis", resolution_pattern_analysis(sessions))

CustomerJourney ==
    Return("customer_journey_analysis", customer_journey_analysis(messages))

InsightsReport ==
    Return("generate_insights_report", generate_insights_report(messages, sessions))

Next ==
    \/ LoadAllData
    \/ OperatorPerformance
    \/ ResponseTime
    \/ MessageSentiment
    \/ PeakHours
    \/ ChannelEfficiency
    \/ ResolutionPattern
    \/ CustomerJourney
    \/ InsightsReport

Spec == Init /\ [][Next]_vars

SpecJourney == InitJourney /\ [][Next]_vars

SpecSentiment == InitSentiment /\ [][Next]_vars

SpecPeak == InitPeak /\ [][Next]_vars

SpecRatings == InitRatings /\ [][Next]_vars

SpecDurations == InitDurations /\ [][Next]_vars

SpecBuckets == InitBuckets /\ [][Next]_vars

SpecTimes == InitTimes /\ [][Next]_vars

SpecIds == InitIds /\ [][Next]_vars

SpecColumns == InitColumns /\ [][Next]_vars

SpecContacts == InitContacts /\ [][Next]_vars

SpecSample == InitSample /\ [][Next]_vars

SpecKeywords == InitKeywords /\ [][Next]_vars

SpecFiles == InitFiles /\ [][Next]_vars

(***************************************************************************)
(* batch_analysis.py: create_static_reports, one step at a time            *)
(***************************************************************************)
\* the steps of create_static_reports, in the order of its statements
BatchSteps == <<"load", "check", "makedirs", "insights", "html", "charts">>

\* faulty variant: the run goes on whatever the message table holds
messages_unusable_never(df) == FALSE

\* processor.messages is None or processor.messages.empty
messages_unusable(df) == df = <<>>

\* get_summary_stats, then the f-strings of the report: a KeyError for a
\* message column the method reads unguarded, a TypeError when a session
\* average is None (column absent) and is formatted as a number
summary_stats_raises(msgs, sess) ==
    \/ msgs # <<>> /\ KeyError(msgs, {"createdAt", "messageDirection", "contactID", "sessionID"})
    \/ sess # <<>> /\ KeyError(sess, {"__sessionDuration", "__sessionQueueDuration",
                                      "sessionRatingStars"})

\* create_static_charts: the charts saved, in order, and whether a view
\* raised on the way (the drawing itself is taken to succeed)
create_static_charts(msgs, sess) ==
    LET operator_perf == operator_performance_analysis(sess)
        peak_data     == peak_hours_analysis(msgs)
        volume        == IF msgs # <<>> THEN {"volume_diario", "volume_por_hora"} ELSE {}
        performance   == IF operator_perf.kind = "value" THEN {"performance_operadores"} ELSE {}
        heatmap       == IF peak_data.kind = "value" THEN {"heatmap_atividade"} ELSE {}
        queue         == IF sess # <<>> /\ "__sessionQueueDuration" \in columns(sess)
                         THEN {"tempos_resposta"} ELSE {}
    IN  IF msgs # <<>> /\ KeyError(msgs, {"date", "hour"})
        THEN [saved |-> {}, raised |-> TRUE]
        ELSE IF operator_perf = Raised
        THEN [saved |-> volume, raised |-> TRUE]
        ELSE IF peak_data = Raised
        THEN [saved |-> volume \cup performance, raised |-> TRUE]
        ELSE [saved |-> volume \cup performance \cup heatmap \cup queue, raised |-> FALSE]

\* the script about to run: the reports directory may be there already
BatchStart(dir) ==
    [name        |-> "batch_analysis",
     pc          |-> "load",
     steps       |-> <<>>,
     reports_dir |-> dir,
     makedirs    |-> FALSE,
     html        |-> FALSE,
     charts      |-> {}]

InitBatch ==
    \E fm \in FileStates, fs \in FileStates, m \in GeneralMessages, s \in GeneralSessions,
       dir \in BOOLEAN :
        /\ fm # "ok" => m = <<>>
        /\ fs # "ok" => s = <<>>
        /\ files = [FilesOk EXCEPT !.messages = fm, !.sessions = fs]
        /\ raw_messages = m
        /\ raw_sessions = s
        /\ messages = <<>>
        /\ sessions = <<>>
        /\ called = "__init__"
        /\ ret = None
        /\ script = BatchStart(dir)

\* the step at script.pc is taken and the run goes on at `next`
BatchStep(next) ==
    [script EXCEPT !.pc = next, !.steps = Append(script.steps, script.pc)]

\* processor = DataProcessor(); processor.load_all_data()
BatchLoad ==
    /\ script.name = "batch_analysis"
    /\ script.pc = "load"
    /\ messages' = load_all_data(files, raw_messages, raw_sessions).messages
    /\ sessions' = load_all_data(files, raw_messages, raw_sessions).sessions
    /\ raw_messages' = frame_after(raw_messages, messages')
    /\ raw_sessions' = frame_after(raw_sessions, sessions')
    /\ called' = "load_all_data"
    /\ ret' = load_all_data(files, raw_messages, raw_sessions).ret
    /\ script' = BatchStep(IF ret'.kind = "raise" THEN "raised" ELSE "check")
    /\ UNCHANGED files

\* if processor.messages is None or processor.messages.empty: return
BatchCheck ==
    /\ script.name = "batch_analysis"
    /\ script.pc = "check"
    /\ script' = BatchStep(IF messages_unusable(messages) THEN "done" ELSE "makedirs")
    /\ UNCHANGED <<raw_messages, raw_sessions, messages, sessions, called, ret, files>>

\* if not os.path.exists(reports_dir): os.makedirs(reports_dir)
BatchMakedirs ==
    /\ script.name = "batch_analysis"
    /\ script.pc = "makedirs"
    /\ script' = [BatchStep("insights") EXCEPT !.reports_dir = TRUE,
                                               !.makedirs = ~script.reports_dir]
    /\ UNCHANGED <<raw_messages, raw_sessions, messages, sessions, called, ret, files>>

\* analytics = CXAnalytics(...); insights = analytics.generate_insights_report()
BatchInsights ==
    /\ script.name = "batch_analysis"
    /\ script.pc = "insights"
    /\ called' = "generate_insights_report"
    /\ ret' = generate_insights_report(messages, sessions)
    /\ script' = BatchStep(IF ret' = Raised THEN "raised" ELSE "html")
    /\ UNCHANGED <<raw_messages, raw_sessions, messages, sessions, files>>

\* the report is put together (summary, insights, operators, sentiment) and
\* written to reports/relatorio_cx_<time>.html
BatchWriteHtml ==
    /\ script.name = "batch_analysis"
    /\ script.pc = "html"
    /\ LET operator_perf == operator_performance_analysis(sessions)
           sentiment     == message_sentiment_analysis(messages)
           raised        == \/ summary_stats_raises(messages, sessions)
                            \/ operator_perf = Raised
                            \/ sentiment = Raised
       IN  /\ called' = IF summary_stats_raises(messages, sessions) THEN called
                        ELSE IF operator_perf = Raised THEN "operator_performance_analysis"
                        ELSE "message_sentiment_analysis"
           /\ ret' = IF summary_stats_raises(messages, sessions) THEN ret
                     ELSE IF operator_perf = Raised THEN Raised
                     ELSE sentiment
           /\ script' = IF raised THEN BatchStep("raised")
                        ELSE [BatchStep("charts") EXCEPT !.html = TRUE]
    /\ UNCHANGED <<raw_messages, raw_sessions, messages, sessions, files>>

\* create_static_charts(processor, analytics, reports_dir)
BatchCharts ==
    /\ script.name = "batch_analysis"
    /\ script.pc = "charts"
    /\ LET result == create_static_charts(messages, sessions)
       IN  script' = [BatchStep(IF result.raised THEN "raised" ELSE "done")
                         EXCEPT !.charts = result.saved]
    /\ called' = "peak_hours_analysis"
    /\ ret' = peak_hours_analysis(messages)
    /\ UNCHANGED <<raw_messages, raw_sessions, messages, sessions, files>>

NextBatch ==
    \/ BatchLoad
    \/ BatchCheck
    \/ BatchMakedirs
    \/ BatchInsights
    \/ BatchWriteHtml
    \/ BatchCharts

SpecBatch == InitBatch /\ [][NextBatch]_vars

(***************************************************************************)
(* run.py: main, one step at a time                                        *)
(***************************************************************************)
\* how `pip install -r requirements.txt` can end: exit status 0, a non-zero
\* exit status (CalledProcessError), or pip cannot be run at all (OSError)
PipOutcomes == {"ok", "failed", "error"}

\* install_requirements(): True, False, or the exception it does not catch
install_requirements(outcome) ==
    CASE outcome = "ok"     -> [kind |-> "value", value |-> TRUE]
      [] outcome = "failed" -> [kind |-> "value", value |-> FALSE]
      [] outcome = "error"  -> Raised

\* faulty variant: one file found is enough
check_data_files_any(f) ==
    \E name \in {"messages", "sessions", "sessions_plugins"} : f[name] # "missing"

\* check_data_files(): no required file is missing from data/
check_data_files(f) ==
    {name \in {"messages", "sessions", "sessions_plugins"} : f[name] = "missing"} = {}

\* the launcher about to run: its command line, whether `import streamlit`
\* works, and how the first and the second run of pip would end
RunStart(install, importable, pip) ==
    [name       |-> "run",
     pc         |-> "argv",
     argv       |-> IF install THEN <<"run.py", "--install">> ELSE <<"run.py">>,
     importable |-> importable,
     pip        |-> pip,
     installs   |-> <<>>,
     checked    |-> FALSE,
     started    |-> FALSE,
     exit       |-> None]

InitRun ==
    \E install \in BOOLEAN, importable \in BOOLEAN, pip \in [1..2 -> PipOutcomes],
       f \in [{"messages", "sessions", "sessions_plugins"} -> {"ok", "missing"}] :
        /\ files = f
        /\ raw_messages = <<>>
        /\ raw_sessions = <<>>
        /\ messages = <<>>
        /\ sessions = <<>>
        /\ called = "__init__"
        /\ ret = None
        /\ script = RunStart(install, importable, pip)

\* sys.exit(status), or the end of the process by an uncaught exception
Exit(s, status) == [s EXCEPT !.pc = "exited", !.exit = [kind |-> "value", value |-> status]]

\* install_requirements() is called once more; the run goes on at `next`
\* when it returns True and ends with status 1 otherwise
Install(s, next) ==
    LET outcome == s.pip[Len(s.installs) + 1]
        result  == install_requirements(outcome)
        after   == [s EXCEPT !.installs = Append(s.installs, outcome)]
    IN  IF result.kind = "value" /\ result.value THEN [after EXCEPT !.pc = next]
        ELSE Exit(after, 1)

\* if "--install" in sys.argv: if not install_requirements(): sys.exit(1)
RunArgv ==
    /\ script.name = "run"
    /\ script.pc = "argv"
    /\ script' = IF \E i \in DOMAIN script.argv : script.argv[i] = "--install"
                 THEN Install(script, "import")
                 ELSE [script EXCEPT !.pc = "import"]
    /\ UNCHANGED <<raw_messages, raw_sessions, messages, sessions, called, ret, files>>

\* try: import streamlit; except ImportError: install_requirements() or exit
RunImport ==
    /\ script.name = "run"
    /\ script.pc = "import"
    /\ script' = IF script.importable THEN [script EXCEPT !.pc = "files"]
                 ELSE Install(script, "files")
    /\ UNCHANGED <<raw_messages, raw_sessions, messages, sessions, called, ret, files>>

\* if not check_data_files(): sys.exit(1)
RunCheckFiles ==
    /\ script.name = "run"
    /\ script.pc = "files"
    /\ script' = IF check_data_files(files)
                 THEN [script EXCEPT !.pc = "streamlit", !.checked = TRUE]
                 ELSE Exit(script, 1)
    /\ UNCHANGED <<raw_messages, raw_sessions, messages, sessions, called, ret, files>>

\* run_streamlit(): the dashboard runs until it ends, then main returns
RunStreamlit ==
    /\ script.name = "run"
    /\ script.pc = "streamlit"
    /\ script' = Exit([script EXCEPT !.started = TRUE], 0)
    /\ UNCHANGED <<raw_messages, raw_sessions, messages, sessions, called, ret, files>>

NextRun ==
    \/ RunArgv
    \/ RunImport
    \/ RunCheckFiles
    \/ RunStreamlit

SpecRun == InitRun /\ [][NextRun]_vars

(***************************************************************************)
(* app.py: main, the date filter of the sidebar.  A date is a day number;  *)
(* day 0 is Thursday 1 January 1970.                                       *)
(***************************************************************************)
\* date.weekday(): Monday is 0
date_weekday(d) == (d + EpochWeekday) % DaysPerWeek

\* the first days of January .. May 1970
MonthStarts == <<0, 31, 59, 90, 120>>

\* date.replace(day=1): the first day of the month of d
replace_day_1(d) ==
    MonthStarts[CHOOSE i \in DOMAIN MonthStarts :
                    /\ MonthStarts[i] <= d
                    /\ \A j \in DOMAIN MonthStarts : MonthStarts[j] <= d => j <= i]

FilterNames ==
    <<"Personalizado", "Hoje", "Ontem", "Últimos 7 dias", "Esta semana", "Semana passada",
      "Últimos 30 dias", "Este mês", "Mês passado", "Últimos 90 dias", "Todo o período">>

\* filter_options[name]: None for the custom period, else (start, end)
filter_options(name, today, min_date, max_date) ==
    CASE name = "Personalizado"   -> None
      [] name = "Hoje"            -> <<today, today>>
      [] name = "Ontem"           -> <<today - 1, today - 1>>
      [] name = "Últimos 7 dias"  -> <<today - 6, today>>
      [] name = "Esta semana"     -> <<today - date_weekday(today), today>>
      [] name = "Semana passada"  -> <<today - (date_weekday(today) + 7),
                                       today - (date_weekday(today) + 1)>>
      [] name = "Últimos 30 dias" -> <<today - 29, today>>
      [] name = "Este mês"        -> <<replace_day_1(today), today>>
      [] name = "Mês passado"     -> <<replace_day_1(replace_day_1(today) - 1),
                                       replace_day_1(today) - 1>>
      [] name = "Últimos 90 dias" -> <<today - 89, today>>
      [] name = "Todo o período"  -> <<min_date, max_date>>

max(a, b) == IF a >= b THEN a ELSE b

min(a, b) == IF a <= b THEN a ELSE b

\* the active period: a preset clamped by max / min, or the value of the
\* date_input widget (both dates picked, else the whole range)
active_period(name, date_range, today, min_date, max_date) ==
    LET option == filter_options(name, today, min_date, max_date)
    IN  IF option # None
        THEN [start_date |-> max(option[1], min_date), end_date |-> min(option[2], max_date)]
        ELSE IF Len(date_range) = 2
        THEN [start_date |-> date_range[1], end_date |-> date_range[2]]
        ELSE [start_date |-> min_date, end_date |-> max_date]

\* the days the data and today are taken from: Tuesday 24 February 1970 and
\* the MaxSpan days after it
FirstDay == 54

MaxSpan == 8

Days == FirstDay..(FirstDay + MaxSpan)

\* what st.sidebar.date_input can hold: one date picked, or a range, within
\* [min_value, max_value]
DateRanges(min_date, max_date) ==
    {<<d>> : d \in min_date..max_date}
        \cup {<<d, e>> : d \in min_date..max_date, e \in min_date..max_date}

\* the script at the sidebar: the data is loaded, a period is selected
FilterStart(today, min_date, max_date, name, date_range) ==
    [name            |-> "app",
     pc              |-> "filter",
     today           |-> today,
     min_date        |-> min_date,
     max_date        |-> max_date,
     selected_filter |-> name,
     date_range      |-> date_range,
     period          |-> None]

Idle ==
    /\ files = FilesOk
    /\ raw_messages = <<>>
    /\ raw_sessions = <<>>
    /\ messages = <<>>
    /\ sessions = <<>>
    /\ called = "__init__"
    /\ ret = None

InitDateFilter ==
    /\ Idle
    /\ \E today \in Days, min_date \in Days, max_date \in Days, i \in DOMAIN FilterNames :
           /\ min_date <= max_date
           /\ \E date_range \in IF FilterNames[i] = "Personalizado"
                                THEN DateRanges(min_date, max_date)
                                ELSE {<<min_date, max_date>>} :
                  script = FilterStart(today, min_date, max_date, FilterNames[i], date_range)

\* start_date, end_date are set and the tables are filtered with them
DateFilter ==
    /\ script.name = "app"
    /\ script.pc = "filter"
    /\ script' = [script EXCEPT
                     !.pc = "filtered",
                     !.period = active_period(script.selected_filter, script.date_range,
                                              script.today, script.min_date, script.max_date)]
    /\ UNCHANGED <<raw_messages, raw_sessions, messages, sessions, called, ret, files>>

NextDateFilter == DateFilter

SpecDateFilter == InitDateFilter /\ [][NextDateFilter]_vars

(***************************************************************************)
(* app.py: main, the charts of a tab: rows per date, hour, status and      *)
(* weekday (the Sindicompany table; the message tab does the same)         *)
(***************************************************************************)
\* df.groupby(c).size(): one entry per key present, in key order
size(df, c, keys) ==
    [i \in DOMAIN keys |-> [key |-> keys[i], count |-> Len(Group(df, c, keys[i]))]]

\* faulty variant: only the labels the series has are kept
reindex_present_only(series, labels) ==
    LET kept == SelectSeq(labels, LAMBDA l : \E j \in DOMAIN series : series[j].key = l)
    IN  [i \in DOMAIN kept |->
            [key   |-> kept[i],
             count |-> Some(series[CHOOSE j \in DOMAIN series : series[j].key = kept[i]].count)]]

\* Series.reindex(labels): one entry per label, in the order of labels; the
\* value of a label the series does not have is missing
reindex(series, labels) ==
    [i \in DOMAIN labels |->
        [key   |-> labels[i],
         count |-> IF \E j \in DOMAIN series : series[j].key = labels[i]
                   THEN Some(series[CHOOSE j \in DOMAIN series : series[j].key = labels[i]].count)
                   ELSE NaN]]

\* the dict handed to weekday.map
weekday_pt ==
    [Monday |-> "Segunda", Tuesday |-> "Terça", Wednesday |-> "Quarta", Thursday |-> "Quinta",
     Friday |-> "Sexta", Saturday |-> "Sábado", Sunday |-> "Domingo"]

\* groupby('weekday').size().reindex([...]).reset_index(name='count'), then
\* the weekday_pt column
weekday_counts(df) ==
    LET counts == reindex(size(df, "weekday", GroupKeys(df, "weekday", DayNamesSorted)),
                          DayNames)
    IN  [i \in DOMAIN counts |->
            [weekday    |-> counts[i].key,
             count      |-> counts[i].count,
             weekday_pt |-> IF counts[i].key \in DOMAIN weekday_pt
                            THEN Some(weekday_pt[counts[i].key]) ELSE NaN]]

Statuses == <<"closed", "open", "pending">>

\* the four tables of counts the tab draws
tab_charts(df) ==
    [daily   |-> size(df, "date", IntKeys(df, "date")),
     hourly  |-> size(df, "hour", IntKeys(df, "hour")),
     status  |-> size(df, "sessionStatus", GroupKeys(df, "sessionStatus", Statuses)),
     weekday |-> weekday_counts(df)]

\* load_data: createdAt parsed with errors='coerce', then date, hour, weekday
TabRow(created, status) ==
    LET createdAt == to_datetime(created)
    IN  [createdAt     |-> createdAt,
         date          |-> dt_date(createdAt),
         hour          |-> dt_hour(createdAt),
         weekday       |-> dt_day_name(createdAt),
         sessionStatus |-> status]

MaxTabRows == 3

\* Thursday 09:00, Friday 10:00, Monday 09:00, no timestamp, no timestamp text
TabCells ==
    [created : {NaN, Some(Unparseable), Some(9), Some(HoursPerDay + 10),
                Some(4 * HoursPerDay + 9)},
     status  : {NaN, Some("closed"), Some("open")}]

TabTables ==
    {[i \in DOMAIN c |-> TabRow(c[i].created, c[i].status)] : c \in SeqsUpTo(TabCells, MaxTabRows)}

InitTab ==
    /\ Idle
    /\ \E df \in TabTables :
           script = [name |-> "app", pc |-> "tab", sindicompany |-> df, charts |-> None]

\* the tab is drawn from the table
SessionsTab ==
    /\ script.name = "app"
    /\ script.pc = "tab"
    /\ script' = [script EXCEPT !.pc = "shown", !.charts = tab_charts(script.sindicompany)]
    /\ UNCHANGED <<raw_messages, raw_sessions, messages, sessions, called, ret, files>>

NextTab == SessionsTab

SpecTab == InitTab /\ [][NextTab]_vars

(***************************************************************************)
(* Properties                                                              *)
(***************************************************************************)
\* the rows of `messages` the sentiment classifier is about, by position
InboundWithContent ==
    {i \in DOMAIN messages :
        messages[i].messageDirection = Some("inbound") /\ notna(messages[i].messageValue)}

\* C1: segmentation puts every contact that has n >= 1 distinct sessions in
\* exactly one tier, fixed by n alone: 1 is Único Contato, 2..3 Ocasional,
\* 4..10 Regular, 11 and more Frequente.
C1_SegmentationTiers ==
    (called = "customer_journey_analysis" /\ ret.kind = "value") =>
        LET rows == ret.individual_journey
            SessionsOf(c) ==
                {Val(messages[i].sessionID) : i \in {j \in DOMAIN messages :
                    messages[j].contactID = Some(c) /\ notna(messages[j].sessionID)}}
            Tier(n) == CASE n = 1 -> "Único Contato"
                         [] n \in 2..3 -> "Ocasional"
                         [] n \in 4..10 -> "Regular"
                         [] n >= 11 -> "Frequente"
        IN  \A k \in 1..Len(Contacts) :
                LET c == Contacts[k]
                    n == Cardinality(SessionsOf(c))
                IN  n >= 1 =>
                        /\ Cardinality({i \in DOMAIN rows : rows[i].contactID = c}) = 1
                        /\ \A i \in DOMAIN rows :
                               rows[i].contactID = c => rows[i].customer_type = Tier(n)

\* a contact with 11 sessions was classified, next to a contact with one
C1_Witness ==
    /\ called = "customer_journey_analysis"
    /\ ret.kind = "value"
    /\ \E i, j \in DOMAIN ret.individual_journey :
           /\ ret.individual_journey[i].total_sessions = 11
           /\ ret.individual_journey[i].customer_type = "Frequente"
           /\ ret.individual_journey[j].total_sessions = 1

\* C2: an inbound message with content is labelled negative when more
\* negative than positive keywords occur in its lower-cased content,
\* positive when more positive ones occur, neutral otherwise; the scenario
\* text has 2 negative and 0 positive matches and is negative.
C2_SentimentRule ==
    (called = "message_sentiment_analysis" /\ ret.kind = "value") =>
        LET text(i) == str_lower(Val(messages[i].messageValue))
            neg(i)  == keyword_count(problem_keywords, text(i))
            pos(i)  == keyword_count(positive_keywords, text(i))
            label(i) == IF neg(i) > pos(i) THEN "negative"
                        ELSE IF pos(i) > neg(i) THEN "positive"
                        ELSE "neutral"
        IN  /\ \A l \in Range(Sentiments) :
                   get(ret.overall, l) = Cardinality({i \in InboundWithContent : label(i) = l})
            /\ \A i \in InboundWithContent :
                   messages[i].messageValue = Some(TextScenario) =>
                       /\ neg(i) = 2
                       /\ pos(i) = 0
                       /\ get(ret.overall, "negative") >= 1

\* the scenario text and a tie were classified
C2_Witness ==
    /\ called = "message_sentiment_analysis"
    /\ ret.kind = "value"
    /\ \E i, j \in InboundWithContent :
           /\ messages[i].messageValue = Some(TextScenario)
           /\ messages[j].messageValue = Some(TextTie)
    /\ ret.overall = [l \in {"negative", "neutral"} |-> 1]

\* C3: an inbound message without content is labelled neutral and counted
\* under neutral in the overall distribution and in the breakdown by date.
C3_NullContentNeutral ==
    called = "message_sentiment_analysis" =>
        LET Null == {i \in DOMAIN messages :
                        /\ messages[i].messageDirection = Some("inbound")
                        /\ isna(messages[i].messageValue)}
            Neutral == {i \in InboundWithContent :
                           detect_sentiment(Some(str_lower(Val(messages[i].messageValue))))
                               = "neutral"}
        IN  Null # {} =>
                /\ ret.kind = "value"
                /\ get(ret.overall, "neutral") = Cardinality(Null) + Cardinality(Neutral)
                /\ \A i \in Null :
                       notna(messages[i].date) =>
                           /\ Val(messages[i].date) \in DOMAIN ret.by_date
                           /\ get(ret.by_date[Val(messages[i].date)], "neutral") >= 1

\* C4 as claimed: the rating buckets are half-open, closed on the left:
\* [0,2) Ruim, [2,3) Regular, [3,4) Bom, [4,5] Excelente.
C4_HalfOpenBuckets ==
    \A i \in DOMAIN sessions :
        LET stars == sessions[i].sessionRatingStars
            r     == Val(stars)
        IN  notna(stars) =>
                /\ (0 <= r /\ r < 2) => sessions[i].rating_category = Some("Ruim")
                /\ (2 <= r /\ r < 3) => sessions[i].rating_category = Some("Regular")
                /\ (3 <= r /\ r < 4) => sessions[i].rating_category = Some("Bom")
                /\ (4 <= r /\ r <= 5) => sessions[i].rating_category = Some("Excelente")

\* C4 amended: the rating buckets are closed on the right: [0,2] Ruim,
\* (2,3] Regular, (3,4] Bom, (4,5] Excelente; a rating outside [0,5] or a
\* missing rating has no bucket.
C4_RightClosedBuckets ==
    \A i \in DOMAIN sessions :
        LET stars == sessions[i].sessionRatingStars
            r     == Val(stars)
        IN  sessions[i].rating_category =
                IF isna(stars) THEN NaN
                ELSE IF 0 <= r /\ r <= 2 THEN Some("Ruim")
                ELSE IF 2 < r /\ r <= 3 THEN Some("Regular")
                ELSE IF 3 < r /\ r <= 4 THEN Some("Bom")
                ELSE IF 4 < r /\ r <= 5 THEN Some("Excelente")
                ELSE NaN

\* a session rated exactly 2 was normalized, and a view was then called
C4_Witness ==
    /\ called # "__init__"
    /\ \E i \in DOMAIN sessions :
           /\ sessions[i].sessionRatingStars = Some(2)
           /\ sessions[i].rating_category = Some("Ruim")

\* the rated sessions whose duration d in seconds satisfies Within(d)
RatedSessions(Within(_)) ==
    {i \in DOMAIN sessions :
        /\ notna(sessions[i].sessionRatingStars)
        /\ notna(sessions[i].__sessionDuration)
        /\ Within(Val(sessions[i].__sessionDuration))}

\* C5 as claimed: the duration bands are [0,5), [5,15), [15,30), [30,60),
\* [60,inf) minutes, and every session of duration >= 0 is in one band.
C5_LeftClosedBands ==
    (called = "resolution_pattern_analysis" /\ ret.kind = "value") =>
        LET bands == ret.duration_analysis
            lo(b) == DurationBins[b] * SecondsPerMinute
        IN  /\ \A b \in DOMAIN bands :
                   bands[b].count = Cardinality(RatedSessions(LAMBDA d :
                       /\ lo(b) <= d
                       /\ (b < Len(DurationBins) => d < lo(b + 1))))
            /\ SumSeq([b \in DOMAIN bands |-> bands[b].count])
                   = Cardinality(RatedSessions(LAMBDA d : d >= 0))

\* C5 amended: the duration bands are (0,5], (5,15], (15,30], (30,60],
\* (60,inf) minutes; every session of duration > 0 is in exactly one band
\* and a session of duration 0 (or less, or missing) is in none.
C5_RightClosedBands ==
    (called = "resolution_pattern_analysis" /\ ret.kind = "value") =>
        LET bands == ret.duration_analysis
            lo(b) == DurationBins[b] * SecondsPerMinute
        IN  /\ \A b \in DOMAIN bands :
                   bands[b].count = Cardinality(RatedSessions(LAMBDA d :
                       /\ lo(b) < d
                       /\ (b < Len(DurationBins) => d <= lo(b + 1))))
            /\ SumSeq([b \in DOMAIN bands |-> bands[b].count])
                   = Cardinality(RatedSessions(LAMBDA d : d > 0))

\* a rated session of exactly 5 minutes was counted in the first band
C5_Witness ==
    /\ called = "resolution_pattern_analysis"
    /\ ret.kind = "value"
    /\ \E i \in DOMAIN sessions :
           /\ sessions[i].__sessionDuration = Some(5 * SecondsPerMinute)
           /\ notna(sessions[i].sessionRatingStars)
    /\ ret.duration_analysis[1].count = 1

\* the messages counted for hour h: those with that hour and a direction
VolumeAt(h) ==
    Cardinality({i \in DOMAIN messages :
        /\ messages[i].hour = Some(h)
        /\ messages[i].messageDirection \in {Some("inbound"), Some("outbound")}})

ActiveHours == {h \in 0..(HoursPerDay - 1) : VolumeAt(h) > 0}

\* five times the 80th percentile, by linear interpolation, of the totals
\* of the active hours (of which there is at least one)
Threshold5 ==
    LET v   == SortInts([i \in 1..Cardinality(ActiveHours) |->
                            VolumeAt(SortedSeq(ActiveHours)[i])])
        n   == Len(v)
        below == (4 * (n - 1)) \div 5
        part  == (4 * (n - 1)) % 5
    IN  IF part = 0 THEN 5 * v[below + 1]
        ELSE (5 - part) * v[below + 1] + part * v[below + 2]

\* C6: peak_hours is exactly the set of hours whose total volume (inbound
\* plus outbound) is at or above the 80th percentile, by linear
\* interpolation, of the hourly totals.
C6_PeakHoursExact ==
    (called = "peak_hours_analysis" /\ ret.kind = "value") =>
        /\ Range(ret.peak_hours) =
               {h \in ActiveHours : 5 * VolumeAt(h) >= Threshold5}
        /\ Len(ret.peak_hours) = Cardinality(Range(ret.peak_hours))

\* some hour is at the threshold and reported, another is below and is not
C6_Witness ==
    /\ called = "peak_hours_analysis"
    /\ ret.kind = "value"
    /\ \E h, g \in ActiveHours :
           /\ 5 * VolumeAt(h) = Threshold5
           /\ h \in Range(ret.peak_hours)
           /\ 5 * VolumeAt(g) < Threshold5
           /\ g \notin Range(ret.peak_hours)

C8_EmptyTables ==
    (messages = <<>> /\ sessions = <<>> /\ called \notin {"__init__", "load_all_data"}) =>
        IF called = "generate_insights_report"
        THEN ret = [kind |-> "value", insights |-> <<>>]
        ELSE ret = None

\* the report was generated from two empty tables
C8_Witness ==
    /\ messages = <<>>
    /\ sessions = <<>>
    /\ called = "generate_insights_report"
    /\ ret.kind = "value"
    /\ ret.insights = <<>>

\* C9: an operator's satisfaction_rate is 100 * (sessions rated >= 4) /
\* (rated sessions), and 0 when the operator has no rated session; it is
\* within [0, 100].
C9_SatisfactionRate ==
    (called = "operator_performance_analysis" /\ ret.kind = "value") =>
        \A k \in DOMAIN ret.rows :
            LET row   == ret.rows[k]
                rate  == row.satisfaction_rate
                Own   == {i \in DOMAIN sessions :
                             sessions[i].operatorFirstname = Some(row.operator)}
                rated == Cardinality({i \in Own : notna(sessions[i].sessionRatingStars)})
                high  == Cardinality({i \in Own :
                             /\ notna(sessions[i].sessionRatingStars)
                             /\ Val(sessions[i].sessionRatingStars) >= 4})
            IN  /\ rate.den > 0
                /\ IF rated = 0 THEN rate.num = 0
                   ELSE rate.num * rated = 100 * high * rate.den
                /\ 0 <= rate.num
                /\ rate.num <= 100 * rate.den

\* one operator without any rated session (rate 0) next to one with half
\* of the rated sessions at 4 or more (rate 50)
C9_Witness ==
    /\ called = "operator_performance_analysis"
    /\ ret.kind = "value"
    /\ \E i, j \in DOMAIN ret.rows :
           /\ ret.rows[i].total_ratings = 0
           /\ ret.rows[i].satisfaction_rate.num = 0
           /\ ret.rows[j].total_ratings = 2
           /\ ret.rows[j].satisfaction_rate.num = 50 * ret.rows[j].satisfaction_rate.den

\* C10: an operator's efficiency is session_count / (mean duration / 3600)
\* when the mean duration is positive (12.0 in the scenario), and is absent
\* or 0, never infinite or NaN, when the mean duration is zero or missing.
C10_EfficiencyGuarded ==
    (called = "operator_performance_analysis" /\ ret.kind = "value") =>
        \A k \in DOMAIN ret.rows :
            LET row == ret.rows[k]
                avg == row.avg_duration
                eff == row.efficiency_sessions_per_hour
            IN  /\ (notna(avg) /\ Val(avg) > 0) =>
                       /\ eff.kind = "finite"
                       /\ eff.x100 = Round2(row.total_sessions * SecondsPerHour * 100, Val(avg))
                /\ (isna(avg) \/ Val(avg) = 0) => (eff.kind = "finite" /\ eff.x100 = 0)
                /\ (row.total_sessions = 3 /\ avg = Some(90000)) => eff.x100 = 1200

\* the mean, rounded to two decimals, of the strictly positive values of column c
PositiveMean(df, c) == MeanRound2(SelectSeq(Values(df, c), LAMBDA d : d > 0))

\* C11: every duration average (per operator, per hour and weekday, per close
\* reason) is the mean over the sessions whose duration is strictly positive;
\* zero and negative durations are left out of it.
C11_PositiveDurationMeans ==
    /\ (called = "operator_performance_analysis" /\ ret.kind = "value") =>
           \A i \in DOMAIN ret.rows :
               LET g == Group(sessions, "operatorFirstname", ret.rows[i].operator)
               IN  /\ ret.rows[i].avg_duration = PositiveMean(g, "__sessionDuration")
                   /\ ret.rows[i].avg_queue_time = PositiveMean(g, "__sessionQueueDuration")
                   /\ ret.rows[i].avg_manual_time = PositiveMean(g, "__sessionManualDuration")
    /\ (called = "response_time_analysis" /\ ret.kind = "value") =>
           /\ \A i \in DOMAIN ret.hourly :
                  LET g == Group(sessions, "hour", ret.hourly[i].key)
                  IN  /\ ret.hourly[i].queue_mean = PositiveMean(g, "__sessionQueueDuration")
                      /\ ret.hourly[i].duration_mean = PositiveMean(g, "__sessionDuration")
           /\ \A i \in DOMAIN ret.weekly :
                  LET g == Group(sessions, "weekday", ret.weekly[i].key)
                  IN  /\ ret.weekly[i].queue_mean = PositiveMean(g, "__sessionQueueDuration")
                      /\ ret.weekly[i].duration_mean = PositiveMean(g, "__sessionDuration")
    /\ (called = "resolution_pattern_analysis" /\ ret.kind = "value") =>
           \A i \in DOMAIN ret.close_motives :
               LET g == Group(sessions, "closeMotive", ret.close_motives[i].closeMotive)
               IN  ret.close_motives[i].avg_duration = PositiveMean(g, "__sessionDuration")

\* the sessions that have an operator name
AssignedSessions == SelectSeq(sessions, LAMBDA r : notna(r.operatorFirstname))

\* C12: for a non-empty session table with an operator column, the
\* total_sessions of the operator rows add up to the number of sessions that
\* have an operator name, and every operator with a session has exactly one row.
C12_SessionsPartition ==
    (/\ called = "operator_performance_analysis"
     /\ sessions # <<>>
     /\ "operatorFirstname" \in columns(sessions)) =>
        /\ ret.kind = "value"
        /\ SumSeq([i \in DOMAIN ret.rows |-> ret.rows[i].total_sessions])
               = Len(AssignedSessions)
        /\ \A r \in Range(AssignedSessions) :
               Cardinality({i \in DOMAIN ret.rows :
                   Some(ret.rows[i].operator) = r.operatorFirstname}) = 1
        /\ \A i \in DOMAIN ret.rows :
               ret.rows[i].total_sessions
                   = Len(Group(sessions, "operatorFirstname", ret.rows[i].operator))

\* C13: the operator rows are ordered by session count, descending: of two
\* consecutive rows the earlier has at least as many sessions as the later.
C13_DescendingSessions ==
    (called = "operator_performance_analysis" /\ ret.kind = "value") =>
        \A i \in 1..(Len(ret.rows) - 1) :
            ret.rows[i].total_sessions >= ret.rows[i + 1].total_sessions

\* the operator later in key order has more sessions and comes first
C13_Witness ==
    /\ called = "operator_performance_analysis"
    /\ ret.kind = "value"
    /\ Len(ret.rows) = 2
    /\ ret.rows[1].operator = "Bia"
    /\ ret.rows[2].operator = "Ana"
    /\ ret.rows[1].total_sessions > ret.rows[2].total_sessions

\* the kinds of the facts of a report, in the order of the list
FactKinds(insights) == [i \in DOMAIN insights |-> insights[i].fact]

\* the facts that do not come from the operator ranking, given the tables
OtherFacts ==
    (IF message_sentiment_analysis(messages) = None THEN <<>> ELSE <<"negative_pct">>)
    \o (IF peak_hours_analysis(messages) = None THEN <<>> ELSE <<"peak_hours">>)
    \o (IF customer_journey_analysis(messages) = None THEN <<>> ELSE <<"frequent_pct">>)

\* C14: the report lists its facts in the fixed order best-rated operator,
\* most efficient operator, negative share, peak hours, frequent share; a fact
\* is in the list exactly when its own upstream aggregate is not None,
\* whatever the other aggregates are.
C14_FactsInOrder ==
    called = "generate_insights_report" =>
        /\ ret.kind = "value"
        /\ FactKinds(ret.insights)
               = (IF operator_performance_analysis(sessions) = None THEN <<>>
                  ELSE <<"best_rated", "most_efficient">>) \o OtherFacts

\* no operator row has a rating mean, or none has an efficiency that is a number
NothingToRank(operator_perf) ==
    \/ \A i \in DOMAIN operator_perf.rows : isna(operator_perf.rows[i].avg_rating)
    \/ \A i \in DOMAIN operator_perf.rows :
           operator_perf.rows[i].efficiency_sessions_per_hour.kind = "nan"

\* C15: on normalized tables the report never ends in an exception; when the
\* session table is non-empty but there is nothing to rank, the two operator
\* facts are skipped and the other facts are still produced.
C15_ReportNeverRaises ==
    called = "generate_insights_report" =>
        /\ ret.kind = "value"
        /\ LET operator_perf == operator_performance_analysis(sessions)
           IN  (operator_perf.kind = "value" /\ NothingToRank(operator_perf)) =>
                   FactKinds(ret.insights) = OtherFacts

\* C16: a view whose required column is entirely absent from a non-empty
\* table returns None instead of raising: a duration, rating or message-count
\* column for the operator performance, 'hour' for the response times, 'hour'
\* or 'messageDirection' for the peak hours, 'sessionID' or 'contactID' for
\* the channel efficiency.
C16_AbsentColumnGivesNone ==
    /\ (/\ called = "operator_performance_analysis"
        /\ sessions # <<>>
        /\ KeyError(sessions, {"__sessionDuration", "__sessionQueueDuration",
                               "__sessionManualDuration", "sessionRatingStars",
                               "__sessionMessagesCount"})) => ret = None
    /\ (/\ called = "response_time_analysis"
        /\ sessions # <<>>
        /\ KeyError(sessions, {"hour"})) => ret = None
    /\ (/\ called = "peak_hours_analysis"
        /\ messages # <<>>
        /\ KeyError(messages, {"hour", "messageDirection"})) => ret = None
    /\ (/\ called = "channel_efficiency_analysis"
        /\ messages # <<>>
        /\ KeyError(messages, {"sessionID", "contactID"})) => ret = None

\* what the method `name` returns on the tables msgs and sess
ResultOf(name, msgs, sess) ==
    CASE name = "operator_performance_analysis" -> operator_performance_analysis(sess)
      [] name = "response_time_analysis"        -> response_time_analysis(sess)
      [] name = "message_sentiment_analysis"    -> message_sentiment_analysis(msgs)
      [] name = "peak_hours_analysis"           -> peak_hours_analysis(msgs)
      [] name = "channel_efficiency_analysis"   -> channel_efficiency_analysis(msgs)
      [] name = "resolution_pattern_analysis"   -> resolution_pattern_analysis(sess)
      [] name = "customer_journey_analysis"     -> customer_journey_analysis(msgs)
      [] name = "generate_insights_report"      -> generate_insights_report(msgs, sess)

\* C17: every view, classifier and the summarizer is a pure function of the
\* stored tables: whatever was called before, a call leaves both tables as
\* they were and returns what the method returns on those tables, hence what
\* it would have returned had it been called first.
C17_ViewsArePure ==
    [][called # "__init__" =>
          /\ messages' = messages
          /\ sessions' = sessions
          /\ ret' = ResultOf(called', messages, sessions)]_vars

\* the classifier has labelled a message and the stored table has no new column
C17_Witness ==
    /\ called = "message_sentiment_analysis"
    /\ ret.kind = "value"
    /\ sessions # <<>>
    /\ "message_lower" \notin columns(messages)

\* the columns the normalizer derives
DerivedMessageColumns ==
    {"date", "hour", "weekday", "weekday_num", "message_length", "has_content"}

DerivedSessionColumns ==
    {"date", "hour", "weekday", "__sessionDuration_minutes",
     "__sessionQueueDuration_minutes", "__sessionManualDuration_minutes", "rating_category"}

\* C18: the normalizer does not mutate its input: the derived fields exist
\* only in the table it returns, never in the frame that was handed to it.
C18_InputNotMutated ==
    /\ columns(raw_messages) \cap DerivedMessageColumns = {}
    /\ columns(raw_sessions) \cap DerivedSessionColumns = {}

\* the rows of a normalized table that have a timestamp
Timestamped(df) == SelectSeq(df, LAMBDA r : notna(r.createdAt))

\* the table is empty or has all the columns cs
HasColumns(df, cs) == df = <<>> \/ ~KeyError(df, cs)

\* the normalizer keeps every row of a frame that has a timestamp column and
\* leaves the timestamp and the buckets of a row without usable timestamp missing
KeepsUntimed(raw, df, buckets) ==
    HasColumns(raw, {"createdAt"}) =>
    /\ Len(df) = Len(raw)
    /\ \A i \in DOMAIN raw :
           (isna(raw[i].createdAt) \/ raw[i].createdAt = Some(Unparseable)) =>
               /\ isna(df[i].createdAt)
               /\ \A c \in buckets : isna(df[i][c])

\* the rows of a response-time profile count the timestamped sessions of their
\* key that have a queue duration
ProfileCounts(rows, c) ==
    /\ \A i \in DOMAIN rows :
           rows[i].queue_count
               = Count(Group(Timestamped(sessions), c, rows[i].key), "__sessionQueueDuration")
    /\ SumSeq([i \in DOMAIN rows |-> rows[i].queue_count]) <= Len(Timestamped(sessions))

Identified(df, c) == SelectSeq(df, LAMBDA r : notna(r[c]))

\* C20: normalization drops exactly the rows whose identifier (message id,
\* session id) is missing and keeps every other row, without an exception;
\* the number of dropped rows is the difference of the two row counts.
C20_MalformedRowsDropped ==
    [][called' = "load_all_data" =>
          /\ ret'.kind # "raise"
          /\ messages' = Identified(_process_messages(raw_messages), "messageID")
          /\ sessions' = Identified(_process_sessions(raw_sessions), "sessionID")
          /\ Len(raw_messages) - Len(messages')
                 = Len(raw_messages) - Len(Identified(raw_messages, "messageID"))]_vars

\* C22: for every channel of the channel-efficiency result, total_messages,
\* unique_sessions and unique_contacts are the message count and the distinct
\* session and contact counts of the channel; messages_per_session is their
\* quotient when the channel has a session, and absent or 0 when it has none:
\* never infinite, never NaN.
C22_MessagesPerSessionGuarded ==
    (called = "channel_efficiency_analysis" /\ messages # <<>>) =>
        /\ ret.kind = "value"
        /\ \A i \in DOMAIN ret.rows :
               LET row == ret.rows[i]
                   g   == Group(messages, "messageChannel", row.channel)
                   ids(c) == {g[j][c] : j \in {k \in DOMAIN g : notna(g[k][c])}}
               IN  /\ row.total_messages = Cardinality({j \in DOMAIN g : notna(g[j].messageID)})
                   /\ row.unique_sessions = Cardinality(ids("sessionID"))
                   /\ row.unique_contacts = Cardinality(ids("contactID"))
                   /\ row.unique_sessions > 0 =>
                          row.messages_per_session
                              = Finite(Round2(row.total_messages, row.unique_sessions))
                   /\ row.unique_sessions = 0 =>
                          row.messages_per_session \in {Finite(0), None}

\* the timestamps of the messages of a contact
ContactTimes(contact) ==
    {Val(r.createdAt) : r \in {m \in Range(messages) :
                                   m.contactID = Some(contact) /\ notna(m.createdAt)}}

\* the hours between the first and the last of a set of timestamps
Span(times) ==
    (CHOOSE x \in times : \A y \in times : x >= y)
    - (CHOOSE x \in times : \A y \in times : x <= y)

\* C23 as stated: relationship_days is the span between the contact's first
\* and last interaction in whole days, never negative, and 0 for every contact
\* with exactly one session.
C23_ZeroForOneSession ==
    (called = "customer_journey_analysis" /\ ret.kind = "value") =>
        \A i \in DOMAIN ret.individual_journey :
            LET row == ret.individual_journey[i]
            IN  /\ notna(row.relationship_days)
                /\ Val(row.relationship_days) >= 0
                /\ HoursPerDay * Val(row.relationship_days) <= Span(ContactTimes(row.contactID))
                /\ Span(ContactTimes(row.contactID)) < HoursPerDay * (Val(row.relationship_days) + 1)
                /\ row.total_sessions = 1 => row.relationship_days = Some(0)

\* C23, amended: relationship_days is the span between the first and the last
\* timestamped message of the contact, truncated to whole days; it is missing
\* when the contact has no timestamped message, never negative, and 0 when all
\* the contact's messages lie within 24 hours (a single message in particular),
\* however many sessions the contact has.
C23_SpanOfMessages ==
    (called = "customer_journey_analysis" /\ ret.kind = "value") =>
        \A i \in DOMAIN ret.individual_journey :
            LET row   == ret.individual_journey[i]
                times == ContactTimes(row.contactID)
            IN  IF times = {} THEN isna(row.relationship_days)
                ELSE /\ notna(row.relationship_days)
                     /\ Val(row.relationship_days) >= 0
                     /\ HoursPerDay * Val(row.relationship_days) <= Span(times)
                     /\ Span(times) < HoursPerDay * (Val(row.relationship_days) + 1)
                     /\ Span(times) < HoursPerDay => row.relationship_days = Some(0)

\* a contact with one session whose two messages are more than two days apart
C23_Witness ==
    /\ called = "customer_journey_analysis"
    /\ ret.kind = "value"
    /\ \E i \in DOMAIN ret.individual_journey :
           /\ ret.individual_journey[i].total_sessions = 1
           /\ ret.individual_journey[i].relationship_days = Some(2)
           /\ Span(ContactTimes(ret.individual_journey[i].contactID)) > 2 * HoursPerDay

\* the contacts named by the rows of a table
ContactsOf(df) ==
    {Val(r.contactID) : r \in {x \in Range(df) : notna(x.contactID)}}

\* the distinct session identifiers on the rows of a table that name a contact
SessionIdsOf(df, contact) ==
    {Val(r.sessionID) : r \in {x \in Range(df) :
                                   x.contactID = Some(contact) /\ notna(x.sessionID)}}

\* C24 as stated: segmentation groups the session table by contact: every
\* contact with a session record has a row whose session count is the number
\* of its distinct sessions in the session table, and the result is absent
\* only when the session table is empty.
C24_GroupsSessionTable ==
    called = "customer_journey_analysis" =>
        /\ ret = None <=> sessions = <<>>
        /\ ret.kind = "value" =>
               \A c \in ContactsOf(sessions) :
                   \E i \in DOMAIN ret.individual_journey :
                       /\ ret.individual_journey[i].contactID = c
                       /\ ret.individual_journey[i].total_sessions
                              = Cardinality(SessionIdsOf(sessions, c))

\* C24, amended: segmentation groups the message table by contact: the result
\* is absent exactly when the message table is empty; otherwise it has one row
\* per contact named on a message, in contact order, whose session count is
\* the number of distinct session identifiers on that contact's messages; a
\* contact that has sessions but no message has no row.
C24_GroupsMessageTable ==
    called = "customer_journey_analysis" =>
        /\ ret = None <=> messages = <<>>
        /\ messages # <<>> =>
               /\ ret.kind = "value"
               /\ {ret.individual_journey[i].contactID : i \in DOMAIN ret.individual_journey}
                      = ContactsOf(messages)
               /\ Len(ret.individual_journey) = Cardinality(ContactsOf(messages))
               /\ \A i \in DOMAIN ret.individual_journey :
                      ret.individual_journey[i].total_sessions
                          = Cardinality(SessionIdsOf(messages, ret.individual_journey[i].contactID))

\* a contact with a session but no message is left out, while another contact
\* has two messages of one session
C24_Witness ==
    /\ called = "customer_journey_analysis"
    /\ ret.kind = "value"
    /\ \E c \in ContactsOf(sessions) :
           \A i \in DOMAIN ret.individual_journey : ret.individual_journey[i].contactID # c
    /\ \E i \in DOMAIN ret.individual_journey :
           /\ ret.individual_journey[i].total_sessions = 1
           /\ ret.individual_journey[i].total_messages = 2

\* the label the classifier gives to the content of row i of `messages`
LabelOf(i) == detect_sentiment(Some(str_lower(Val(messages[i].messageValue))))

\* the analysed rows labelled negative, by position
NegativeRows == {i \in InboundWithContent : LabelOf(i) = "negative"}

\* the n-th smallest member of a set of positions
NthOf(S, n) == CHOOSE i \in S : Cardinality({j \in S : j < i}) = n - 1

\* C25: the sentiment classifier works on inbound messages only: the overall
\* distribution and the per-date breakdown count the inbound messages with
\* content and nothing else, the overall counts sum to their number, and the
\* negative sample is the content of the first at most 10 of them labelled
\* negative, in table order.
C25_InboundOnly ==
    called = "message_sentiment_analysis" =>
        /\ InboundWithContent = {} => ret = None
        /\ ret.kind = "value" =>
               /\ \A l \in Range(Sentiments) :
                      Cardinality({i \in InboundWithContent : LabelOf(i) = l})
                          = IF l \in DOMAIN ret.overall THEN ret.overall[l] ELSE 0
               /\ \A d \in DOMAIN ret.by_date : \A l \in DOMAIN ret.by_date[d] :
                      ret.by_date[d][l]
                          = Cardinality({i \in InboundWithContent :
                                            messages[i].date = Some(d) /\ LabelOf(i) = l})
               /\ Len(ret.sample_negative)
                      = IF Cardinality(NegativeRows) < 10 THEN Cardinality(NegativeRows) ELSE 10
               /\ \A n \in DOMAIN ret.sample_negative :
                      ret.sample_negative[n] = messages[NthOf(NegativeRows, n)].messageValue

\* more than 10 complaints came in, after an outbound message that would be
\* labelled negative too
C25_Witness ==
    /\ called = "message_sentiment_analysis"
    /\ ret.kind = "value"
    /\ Cardinality(NegativeRows) > 10
    /\ Len(ret.sample_negative) = 10
    /\ \E i \in DOMAIN messages :
           /\ messages[i].messageDirection = Some("outbound")
           /\ notna(messages[i].messageValue)
           /\ LabelOf(i) = "negative"

\* C27: every keyword classifies as its own set: an inbound message whose
\* content is exactly a keyword of the negative set is labelled negative, and
\* one whose content is exactly a keyword of the positive set is labelled
\* positive.
C27_KeywordOwnSet ==
    (called = "message_sentiment_analysis" /\ Len(messages) = 1 /\ InboundWithContent = {1}) =>
        LET content == Val(messages[1].messageValue)
        IN  /\ ret.kind = "value"
            /\ content \in Range(problem_keywords) =>
                   (DOMAIN ret.overall = {"negative"} /\ ret.overall["negative"] = 1)
            /\ content \in Range(positive_keywords) =>
                   (DOMAIN ret.overall = {"positive"} /\ ret.overall["positive"] = 1)

\* a file that could not be loaded at all
LoadFailed(state) == state \in {"missing", "unreadable", "empty"}

IsPrefix(s, t) == Len(s) <= Len(t) /\ s = SubSeq(t, 1, Len(s))

\* C29: the batch run takes its steps in the order load, check messages,
\* create reports directory, generate insights, write HTML report, create
\* static charts; if the message table is empty after loading, the run ends
\* at the check: no directory is created, no insights are computed, no HTML
\* file is written and no chart is produced.
C29_BatchOrder ==
    script.name = "batch_analysis" =>
        /\ IsPrefix(script.steps, BatchSteps)
        /\ script.makedirs => (Len(script.steps) >= 3 /\ messages # <<>>)
        /\ called = "generate_insights_report" => (Len(script.steps) >= 4 /\ script.reports_dir)
        /\ script.html => (Len(script.steps) >= 5 /\ script.reports_dir)
        /\ script.charts # {} => (Len(script.steps) = 6 /\ script.html)
        /\ (Len(script.steps) >= 2 /\ messages = <<>>) =>
               /\ script.steps = <<"load", "check">>
               /\ script.pc = "done"
               /\ ~script.makedirs
               /\ called = "load_all_data"
               /\ ~script.html
               /\ script.charts = {}

\* a run that went through every step and wrote the report and charts
C29_Witness ==
    /\ script.name = "batch_analysis"
    /\ script.steps = BatchSteps
    /\ script.pc = "done"
    /\ script.makedirs
    /\ script.html
    /\ script.charts # {}


\* the required data files that are not in data/
MissingFiles == {name \in DOMAIN files : files[name] = "missing"}

\* the installations attempted so far that did not succeed
FailedInstalls == {i \in DOMAIN script.installs : script.installs[i] # "ok"}

\* C30: the launcher starts the dashboard only after check_data_files found
\* all three data files and after every installation it attempted succeeded;
\* when an installation fails or a data file is missing the process exits
\* with status 1 and the dashboard is never started.
C30_LauncherGates ==
    script.name = "run" =>
        /\ script.started =>
               /\ script.checked
               /\ MissingFiles = {}
               /\ FailedInstalls = {}
               /\ "--install" \in Range(script.argv) => Len(script.installs) >= 1
               /\ ~script.importable => Len(script.installs) >= 1
        /\ FailedInstalls # {} =>
               /\ script.pc = "exited"
               /\ script.exit = [kind |-> "value", value |-> 1]
               /\ ~script.started
        /\ (MissingFiles # {} /\ script.pc = "exited") =>
               /\ script.exit = [kind |-> "value", value |-> 1]
               /\ ~script.started
        /\ MissingFiles # {} => script.pc # "streamlit"
        /\ script.pc # "exited" => ENABLED NextRun

\* the dashboard was started after two installations that succeeded
C30_Witness ==
    /\ script.name = "run"
    /\ script.started
    /\ script.checked
    /\ script.installs = <<"ok", "ok">>
    /\ script.exit = [kind |-> "value", value |-> 0]

\* C28: for every preset period and every today, the active period of the
\* date filter lies within the data: min_date <= start_date <= end_date <=
\* max_date.
C28_PeriodWithinData ==
    (script.name = "app" /\ script.pc = "filtered"
        /\ script.selected_filter # "Personalizado") =>
        /\ script.min_date <= script.period.start_date
        /\ script.period.start_date <= script.period.end_date
        /\ script.period.end_date <= script.max_date

\* the sum of the counts of a table of counts
TotalOf(series) == SumSeq([i \in DOMAIN series |-> series[i].count])

\* the sum of the counts that are present in the weekday table
WeekdayTotal(rows) ==
    SumSeq([i \in DOMAIN rows |-> IF isna(rows[i].count) THEN 0 ELSE Val(rows[i].count)])

\* the rows of a table whose cell in column c is present
WithKey(df, c) == {i \in DOMAIN df : notna(df[i][c])}

\* the weekday table has seven rows, Monday to Sunday, each with its
\* Portuguese label and the number of rows of that weekday (missing when
\* there are none)
SevenWeekdays(df, rows) ==
    /\ Len(rows) = 7
    /\ [i \in DOMAIN rows |-> rows[i].weekday] = DayNames
    /\ [i \in DOMAIN rows |-> rows[i].weekday_pt]
           = <<Some("Segunda"), Some("Terça"), Some("Quarta"), Some("Quinta"),
               Some("Sexta"), Some("Sábado"), Some("Domingo")>>
    /\ \A i \in DOMAIN rows :
           LET n == Cardinality({j \in DOMAIN df : df[j].weekday = Some(rows[i].weekday)})
           IN  rows[i].count = IF n = 0 THEN NaN ELSE Some(n)

\* C26 as stated: the weekday table has the seven rows, and the counts per
\* date, per hour, per status and per weekday each sum to the number of rows
\* of the table.
C26_CountsSumToRows ==
    (script.name = "app" /\ script.pc = "shown") =>
        LET df == script.sindicompany
        IN  /\ SevenWeekdays(df, script.charts.weekday)
            /\ TotalOf(script.charts.daily) = Len(df)
            /\ TotalOf(script.charts.hourly) = Len(df)
            /\ TotalOf(script.charts.status) = Len(df)
            /\ WeekdayTotal(script.charts.weekday) = Len(df)

\* C26, amended: the weekday table has the seven rows, and the counts per
\* date, per hour, per status and per weekday each sum to the number of rows
\* that have a date, an hour, a status, a weekday; a row whose timestamp or
\* status is missing is in no count.
C26_CountsSumToKeyedRows ==
    (script.name = "app" /\ script.pc = "shown") =>
        LET df == script.sindicompany
        IN  /\ SevenWeekdays(df, script.charts.weekday)
            /\ TotalOf(script.charts.daily) = Cardinality(WithKey(df, "date"))
            /\ TotalOf(script.charts.hourly) = Cardinality(WithKey(df, "hour"))
            /\ TotalOf(script.charts.status) = Cardinality(WithKey(df, "sessionStatus"))
            /\ WeekdayTotal(script.charts.weekday) = Cardinality(WithKey(df, "weekday"))

\* a table with rows on two weekdays and a row without timestamp
C26_Witness ==
    /\ script.name = "app"
    /\ script.pc = "shown"
    /\ Len(script.sindicompany) = 3
    /\ Cardinality(WithKey(script.sindicompany, "weekday")) = 2
    /\ script.charts.weekday[1].count = Some(1)
    /\ script.charts.weekday[4].count = Some(1)
    /\ isna(script.charts.weekday[7].count)

====
